---------------------------- MODULE Spec2Model ----------------------------
(***************************************************************************)
(* A model of crypto-vdf-js: the signed big-integer wire encoding, the     *)
(* class group of binary quadratic forms, and the Pietrzak and Wesolowski  *)
(* verifiable delay functions built on them.                               *)
(*                                                                         *)
(* JavaScript BigInt arithmetic is exact; `/` and `%` truncate toward      *)
(* zero.  TLC integers are 32 bits wide, so the inputs are drawn from      *)
(* ranges in which every intermediate value of the code fits.              *)
(***************************************************************************)
EXTENDS Integers, Sequences, FiniteSets, TLC

VARIABLES
    bop,      \* byte-codec harness: the last function applied
    bv,       \* byte-codec harness: the integer argument
    bw,       \* byte-codec harness: the byteLength argument
    bres,     \* byte-codec harness: the result of bigIntToBytes / u64ToBytes
    bdec,     \* byte-codec harness: the result of bytesToBigInt on bres
    gop,      \* class-group harness: the last method applied
    gx,       \* class-group harness: the form the methods are applied to
    gy,       \* class-group harness: a second form, the operand of multiply
    vkind,    \* VDF: "wesolowski" or "pietrzak"
    vcaller,  \* VDF: the method that is running or ran last, solve or verify
    vpc,      \* VDF: the position of the run
    vt,       \* VDF: the difficulty argument
    vdisc,    \* VDF: the discriminant argument
    vj,       \* VDF: the counter j of the hashPrime that is running
    vseed,    \* VDF: the seed of the hashPrime that is running or ran last
    vhashed,  \* VDF: the inputs the running hashPrime hashed and rejected
    vprimes,  \* VDF: seed |-> leading hash bytes hashPrime accepted for it
    vhashes,  \* VDF: generateRValue input |-> leading bytes of its hash
    vb,       \* VDF: the prime hashPrime returned
    vsolution,\* VDF: the bytes solve returned
    valleged, \* VDF: the allegedSolution argument of verify
    vtamper,  \* VDF: what was done to the solution before verify
    vverdict  \* VDF: "accepted" when verify returned, else what was thrown

bvars == <<bop, bv, bw, bres, bdec>>

gvars == <<gop, gx, gy>>

vvars == <<vkind, vcaller, vpc, vt, vdisc, vj, vseed, vhashed, vprimes,
           vhashes, vb, vsolution, valleged, vtamper, vverdict>>

vars == <<bop, bv, bw, bres, bdec, gop, gx, gy, vkind, vcaller, vpc, vt,
          vdisc, vj, vseed, vhashed, vprimes, vhashes, vb, vsolution,
          valleged, vtamper, vverdict>>

(***************************************************************************)
(* BigInt arithmetic of the source language                                *)
(***************************************************************************)
\* Body(value), with value computed once: a `const v = value` of the source.
Bind(value, Body(_)) == CHOOSE result \in {Body(v) : v \in {value}} : TRUE

Abs(n) == IF n < 0 THEN -n ELSE n

\* BigInt `/`: the quotient truncated toward zero (b # 0).
TDiv(a, b) ==
    LET q == Abs(a) \div Abs(b)
    IN  IF (a >= 0) = (b >= 0) THEN q ELSE -q

\* BigInt `%`: the remainder, with the sign of the dividend (b # 0).
TRem(a, b) == a - b * TDiv(a, b)

\* n >> 8n on a non-negative BigInt, k times.
RECURSIVE ShiftRight8(_, _)
ShiftRight8(n, k) == IF k = 0 THEN n ELSE ShiftRight8(n \div 256, k - 1)

\* n.toString(2).length for n > 0.
RECURSIVE BinaryDigits(_)
BinaryDigits(n) == IF n < 2 THEN 1 ELSE 1 + BinaryDigits(n \div 2)

bitLength(n) == IF n = 0 THEN 0 ELSE BinaryDigits(Abs(n))

(***************************************************************************)
(* src/src/utils.ts: bytesToBigInt, bigIntToBytes, u64ToBytes              *)
(***************************************************************************)
\* The loop `result = (result << 8n) | BigInt(byte)` over bytes[i..].
RECURSIVE FoldBytes(_, _, _, _)
FoldBytes(bytes, i, result, flip) ==
    IF i > Len(bytes) THEN result
    ELSE FoldBytes(bytes, i + 1,
                   result * 256 + (IF flip THEN 255 - bytes[i] ELSE bytes[i]),
                   flip)

bytesToBigInt(bytes) ==
    IF Len(bytes) = 0 THEN 0
    ELSE LET isNegative == bytes[1] >= 128
         IN  IF isNegative
             THEN -(FoldBytes(bytes, 1, 0, TRUE) + 1)
             ELSE FoldBytes(bytes, 1, 0, FALSE)

\* The byte count read as the integer division (size + 7) >> 3.
BytesNeededFloor(size) == (size + 7) \div 8

\* Math.ceil((size + 7) / 8), the division being a floating-point one.
BytesNeeded(size) == (size + 7 + 7) \div 8

\* The loop `bytes[i] = Number(n & 0xFFn); n >>= 8n` for i = byteLength-1
\* down to offset, on a buffer of zeros; positions are 1-based here.
WriteRightAligned(n, byteLength, offset) ==
    [i \in 1..byteLength |->
        IF i <= offset THEN 0
        ELSE ShiftRight8(n, byteLength - i) % 256]

Thrown(kind) == [err |-> kind, bytes |-> <<>>]
Returned(bytes) == [err |-> "none", bytes |-> bytes]

bigIntToBytes(value, byteLength) ==
    IF value = 0 THEN Returned([i \in 1..byteLength |-> 0])
    ELSE IF value < 0
    THEN LET notValue == -value - 1
             size == bitLength(notValue)
             newByteSize == BytesNeeded(size)
             offset == byteLength - newByteSize
             written == WriteRightAligned(notValue, byteLength, offset)
         IN  IF offset < 0 THEN Thrown("Error")
             ELSE Returned([i \in 1..byteLength |->
                              IF i <= offset THEN 255 ELSE 255 - written[i]])
    ELSE LET size == bitLength(value)
             byteLen == BytesNeeded(size)
             offset == byteLength - byteLen
         IN  IF offset < 0 THEN Thrown("Error")
             ELSE Returned(WriteRightAligned(value, byteLength, offset))

\* The loop of u64ToBytes: every byte is taken from `value`, while the shift
\* is applied to the parameter `n`, which is never read again.
RECURSIVE U64Loop(_, _, _, _)
U64Loop(i, value, n, bytes) ==
    IF i < 1 THEN bytes
    ELSE U64Loop(i - 1, value, n \div 256, [bytes EXCEPT ![i] = value % 256])

u64ToBytes(n) == U64Loop(8, n, n, [i \in 1..8 |-> 0])

(***************************************************************************)
(* src/src/utils.ts: modPow, isProbablePrime                               *)
(***************************************************************************)
\* The loop of modPow; `exponent >> 1n` on a positive exponent halves it.
RECURSIVE ModPowLoop(_, _, _, _)
ModPowLoop(result, base, exponent, modulus) ==
    IF exponent <= 0 THEN result
    ELSE Bind(<<IF exponent % 2 = 1
                THEN TRem(result * base, modulus) ELSE result,
                TRem(base * base, modulus),
                exponent \div 2>>,
              LAMBDA next : ModPowLoop(next[1], next[2], next[3], modulus))

modPow(base, exponent, modulus) ==
    IF modulus = 1 THEN 0
    ELSE Bind(<<TRem(base, modulus), exponent, modulus>>,
              LAMBDA arg : ModPowLoop(1, arg[1], arg[2], arg[3]))

smallPrimes == <<2, 3, 5, 7, 11, 13, 17, 19, 23, 29, 31, 37>>

\* `while (d % 2n === 0n) { d /= 2n; r++ }`: the pair <<d, r>> at the exit.
RECURSIVE SplitPowerOfTwo(_, _)
SplitPowerOfTwo(d, r) ==
    IF TRem(d, 2) = 0
    THEN Bind(<<TDiv(d, 2), r + 1>>,
              LAMBDA next : SplitPowerOfTwo(next[1], next[2]))
    ELSE <<d, r>>

\* The inner loop `for (j = 0; j < r - 1; j++)` of the witness loop: TRUE
\* when some squaring of x reaches n - 1.
RECURSIVE SquaresReachMinusOne(_, _, _, _)
SquaresReachMinusOne(x, j, r, n) ==
    IF j >= r - 1 THEN FALSE
    ELSE Bind(modPow(x, 2, n),
              LAMBDA x2 : IF x2 = n - 1 THEN TRUE
                          ELSE SquaresReachMinusOne(x2, j + 1, r, n))

\* One pass of the witness loop: FALSE when witness a proves n composite.
WitnessPasses(a, d, r, n) ==
    IF a >= n THEN TRUE
    ELSE Bind(modPow(a, d, n),
              LAMBDA x : IF x = 1 \/ x = n - 1 THEN TRUE
                         ELSE SquaresReachMinusOne(x, 0, r, n))

isProbablePrime(n, iterations) ==
    IF n < 2 THEN FALSE
    ELSE IF n = 2 \/ n = 3 THEN TRUE
    ELSE IF TRem(n, 2) = 0 THEN FALSE
    ELSE IF \E i \in 1..Len(smallPrimes) : n = smallPrimes[i] THEN TRUE
    ELSE IF \E i \in 1..Len(smallPrimes) : TRem(n, smallPrimes[i]) = 0
         THEN FALSE
    ELSE Bind(SplitPowerOfTwo(n - 1, 0),
              LAMBDA dr :
                  \A i \in 1..(IF iterations < Len(smallPrimes)
                               THEN iterations ELSE Len(smallPrimes)) :
                      WitnessPasses(smallPrimes[i], dr[1], dr[2], n))

(***************************************************************************)
(* src/src/utils.ts (classgroup part): extendedGCD, threeGCD,              *)
(* solveLinearCongruence                                                   *)
(***************************************************************************)
RECURSIVE ExtendedGCDLoop(_, _, _, _, _, _)
ExtendedGCDLoop(oldR, r, oldS, s, oldT, t) ==
    IF r = 0
    THEN IF oldR < 0 THEN <<-oldR, -oldS, -oldT>> ELSE <<oldR, oldS, oldT>>
    ELSE Bind(TDiv(oldR, r),
              LAMBDA quotient :
                  Bind(<<r, oldR - quotient * r,
                         s, oldS - quotient * s,
                         t, oldT - quotient * t>>,
                       LAMBDA next :
                           ExtendedGCDLoop(next[1], next[2], next[3],
                                           next[4], next[5], next[6])))

extendedGCD(a, b) ==
    IF b = 0
    THEN IF a < 0 THEN <<-a, -1, 0>> ELSE <<a, 1, 0>>
    ELSE Bind(<<a, b>>,
              LAMBDA arg : ExtendedGCDLoop(arg[1], arg[2], 1, 0, 0, 1))

threeGCD(a, b, c) ==
    Bind(extendedGCD(a, b)[1], LAMBDA g1 : extendedGCD(g1, c)[1])

CongruenceThrew(kind) == [err |-> kind, mu |-> 0, v |-> 0]

\* The part of solveLinearCongruence after the extended GCD <<g, d, e>>.
SolveWithGCD(b, mAbs, g, d) ==
    IF g = 0 THEN CongruenceThrew("RangeError")
    ELSE IF TRem(b, g) # 0 THEN CongruenceThrew("Error")
    ELSE IF TRem(mAbs, g) # 0 THEN CongruenceThrew("Error")
    ELSE Bind(<<TDiv(b, g), TDiv(mAbs, g)>>,
              LAMBDA qv :
                  IF qv[2] = 0 THEN CongruenceThrew("RangeError")
                  ELSE Bind(TRem(qv[1] * d, qv[2]),
                            LAMBDA mu :
                                [err |-> "none",
                                 mu |-> IF mu < 0 THEN mu + qv[2] ELSE mu,
                                 v |-> qv[2]]))

\* The result of solveLinearCongruence: err is "none" when it returns
\* [mu, v], "Error" when it throws its own Error, and "RangeError" when a
\* BigInt division or remainder by zero throws.
solveLinearCongruence(a, b, m) ==
    Bind(<<a, b, Abs(m)>>,
         LAMBDA arg :
             Bind(extendedGCD(arg[1], arg[3]),
                  LAMBDA gd : SolveWithGCD(arg[2], arg[3], gd[1], gd[2])))

(***************************************************************************)
(* src/src/utils.ts (classgroup part): class ClassGroup                    *)
(*                                                                         *)
(* A form is a record of the four fields of the class plus err, which is   *)
(* "none" for an object and otherwise names what the computation that      *)
(* should have produced it threw: "RangeError" (BigInt division by zero),  *)
(* "Error" (thrown by solveLinearCongruence or bigIntToBytes), or          *)
(* "NoReturn" (a loop that does not end).  Every method passes a failure   *)
(* of its operands on, as an exception propagates.                         *)
(***************************************************************************)
MaxReduceSteps == 40

ClassGroup(a, b, c, discriminant) ==
    [a |-> a, b |-> b, c |-> c, discriminant |-> discriminant, err |-> "none"]

Failed(kind, discriminant) ==
    [a |-> 0, b |-> 0, c |-> 0, discriminant |-> discriminant, err |-> kind]

\* b reduced modulo 2a into [-a, a): the comparison `r >= this.a` in place
\* of `r > this.a`.
NormalizedBHalfOpen(a, b) ==
    LET twoA == 2 * a
        r0 == TRem(b, twoA)
        r1 == IF r0 < 0 THEN r0 + twoA ELSE r0
    IN  IF r1 >= a THEN r1 - twoA ELSE r1

\* b reduced modulo 2a into (-a, a], as normalize computes it (a # 0).
NormalizedB(a, b) ==
    LET twoA == 2 * a
        r0 == TRem(b, twoA)
        r1 == IF r0 < 0 THEN r0 + twoA ELSE r0
    IN  IF r1 > a THEN r1 - twoA ELSE r1

\* normalize without the update of c that keeps the discriminant.
normalizeKeepingC(form) ==
    Bind(form,
         LAMBDA f :
             IF f.err # "none" THEN f
             ELSE IF f.a = 0 THEN Failed("RangeError", f.discriminant)
             ELSE ClassGroup(f.a, NormalizedB(f.a, f.b), f.c, f.discriminant))

normalize(form) ==
    Bind(form,
         LAMBDA f :
             IF f.err # "none" THEN f
             ELSE IF f.a = 0 THEN Failed("RangeError", f.discriminant)
             ELSE Bind(NormalizedB(f.a, f.b),
                       LAMBDA r :
                           ClassGroup(f.a, r,
                                      f.c + TDiv((r - f.b) * (r + f.b),
                                                 4 * f.a),
                                      f.discriminant)))

\* The while loop of reduce.  The source counts its iterations only in debug
\* mode, so the loop has no bound of its own.
RECURSIVE ReduceLoop(_, _)
ReduceLoop(f, fuel) ==
    IF f.err # "none" THEN f
    ELSE IF ~(f.a > f.c \/ (f.a = f.c /\ f.b < 0)) THEN f
    ELSE IF fuel = 0 THEN Failed("NoReturn", f.discriminant)
    ELSE IF f.c = 0 THEN Failed("RangeError", f.discriminant)
    ELSE Bind(TDiv(f.c + f.b, 2 * f.c),
              LAMBDA s :
                  Bind(normalize(ClassGroup(f.c,
                                            2 * s * f.c - f.b,
                                            f.a - s * f.b + s * s * f.c,
                                            f.discriminant)),
                       LAMBDA next : ReduceLoop(next, fuel - 1)))

reduce(form) ==
    Bind(normalize(form), LAMBDA f : ReduceLoop(f, MaxReduceSteps))

fromAbDiscriminant(a, b, discriminant) ==
    IF 4 * a = 0 THEN Failed("RangeError", discriminant)
    ELSE reduce(ClassGroup(a, b, TDiv(b * b - discriminant, 4 * a),
                           discriminant))

\* The form fromAbDiscriminant(2, 1, D) in place of the identity.
identityFromTwo(f) == fromAbDiscriminant(2, 1, f.discriminant)

identity(f) == fromAbDiscriminant(1, 1, f.discriminant)

\* The end of multiply: k, l, m and the reduced form (A, B, C).
MultiplyResult(this, h, j, s, t, u, mu, v, lambda) ==
    IF s = 0 \/ s * t = 0 THEN Failed("RangeError", this.discriminant)
    ELSE Bind(mu + v * lambda,
              LAMBDA k :
                  Bind(<<TDiv(k * t - h, s),
                         TDiv(t * u * k - h * u - this.c * s, s * t)>>,
                       LAMBDA lm :
                           reduce(ClassGroup(s * t,
                                             j * u - (k * t + lm[1] * s),
                                             k * lm[1] - j * lm[2],
                                             this.discriminant))))

\* The two linear congruences of multiply, for s = a1/w, t = a2/w, u = g/w.
MultiplySolve(this, h, j, s, t, u) ==
    Bind(solveLinearCongruence(t * u, h * u + s * this.c, s * t),
         LAMBDA first :
             IF first.err # "none" THEN Failed(first.err, this.discriminant)
             ELSE Bind(solveLinearCongruence(t * first.v,
                                             h - t * first.mu, s),
                       LAMBDA second :
                           IF second.err # "none"
                           THEN Failed(second.err, this.discriminant)
                           ELSE MultiplyResult(this, h, j, s, t, u,
                                               first.mu, first.v,
                                               second.mu)))

\* multiply on two forms: g, h, w, then s, t, u.
MultiplyForms(this, other) ==
    Bind(<<TDiv(this.b + other.b, 2), TDiv(other.b - this.b, 2)>>,
         LAMBDA gh :
             Bind(threeGCD(this.a, other.a, gh[1]),
                  LAMBDA w :
                      IF w = 0 THEN Failed("RangeError", this.discriminant)
                      ELSE Bind(<<TDiv(this.a, w), TDiv(other.a, w),
                                  TDiv(gh[1], w)>>,
                                LAMBDA stu :
                                    MultiplySolve(this, gh[2], w, stu[1],
                                                  stu[2], stu[3]))))

multiply(this, other) ==
    Bind(<<this, other>>,
         LAMBDA operand :
             IF operand[1].err # "none" THEN operand[1]
             ELSE IF operand[2].err # "none" THEN operand[2]
             ELSE MultiplyForms(operand[1], operand[2]))

square(form) == Bind(form, LAMBDA f : multiply(f, f))

\* n squarings in a row, as the first n \div 2 of them followed by the rest.
RECURSIVE repeatedSquare(_, _)
repeatedSquare(f, n) ==
    IF n <= 0 THEN f
    ELSE IF n = 1 THEN square(f)
    ELSE Bind(repeatedSquare(f, n \div 2),
              LAMBDA half : repeatedSquare(half, n - n \div 2))

\* exponent.toString(2) as a sequence of characters: a "-" for a negative
\* exponent, then the binary digits of its magnitude.
RECURSIVE BinaryMagnitude(_)
BinaryMagnitude(n) ==
    IF n < 2 THEN <<IF n = 1 THEN "1" ELSE "0">>
    ELSE Append(BinaryMagnitude(n \div 2), IF n % 2 = 1 THEN "1" ELSE "0")

BinaryString(n) ==
    IF n < 0 THEN <<"-">> \o BinaryMagnitude(-n) ELSE BinaryMagnitude(n)

\* One pass of the loop of pow that multiplies whatever the bit is.
PowStepAlwaysMultiply(this, bits, i, result) ==
    Bind(square(result), LAMBDA squared : multiply(squared, this))

\* One pass of the loop of pow, at position i of bits (1-based here).
PowStep(this, bits, i, result) ==
    Bind(square(result),
         LAMBDA squared :
             IF bits[i] = "1" THEN multiply(squared, this) ELSE squared)

\* The passes of the loop of pow at positions first..last, as those of the
\* first half of the positions followed by the rest.
RECURSIVE PowRange(_, _, _, _, _)
PowRange(this, bits, first, last, result) ==
    IF first > last THEN result
    ELSE IF first = last THEN PowStep(this, bits, first, result)
    ELSE Bind(PowRange(this, bits, first, (first + last) \div 2, result),
              LAMBDA half :
                  PowRange(this, bits, (first + last) \div 2 + 1, last, half))

PowLoop(this, bits, i, result) == PowRange(this, bits, i, Len(bits), result)

\* pow on an exponent given by its binary string (the exponent is neither 0
\* nor 1).
PowBits(this, bits) ==
    Bind(<<this, bits>>, LAMBDA arg : PowLoop(arg[1], arg[2], 2, arg[1]))

pow(this, exponent) ==
    IF exponent = 0 THEN identity(this)
    ELSE IF exponent = 1 THEN this
    ELSE PowBits(this, BinaryString(exponent))

\* The size serialize() takes when it is given none.
DefaultSize(f) == (bitLength(-f.discriminant) + 16) \div 16

serialize(form, size) ==
    Bind(form,
         LAMBDA f :
             IF f.err # "none" THEN Thrown(f.err)
             ELSE Bind(<<bigIntToBytes(f.a, size), bigIntToBytes(f.b, size)>>,
                       LAMBDA ab :
                           IF ab[1].err # "none" THEN ab[1]
                           ELSE IF ab[2].err # "none" THEN ab[2]
                           ELSE Returned(ab[1].bytes \o ab[2].bytes)))

\* fromBytes on a buffer of even length.
fromBytes(bytes, discriminant) ==
    Bind(<<bytesToBigInt(SubSeq(bytes, 1, Len(bytes) \div 2)),
           bytesToBigInt(SubSeq(bytes, Len(bytes) \div 2 + 1, Len(bytes)))>>,
         LAMBDA ab : fromAbDiscriminant(ab[1], ab[2], discriminant))

equals(this, other) ==
    /\ this.a = other.a
    /\ this.b = other.b
    /\ this.c = other.c
    /\ this.discriminant = other.discriminant

(***************************************************************************)
(* src/src/utils.ts (classgroup part): iterateSquarings                    *)
(***************************************************************************)
\* [...powersToCalculate].sort((a, b) => a - b), without the repetitions,
\* which make iterateSquarings square zero times and store the same form.
RECURSIVE SortedPowers(_)
SortedPowers(S) ==
    IF S = {} THEN <<>>
    ELSE Bind(CHOOSE m \in S : \A n \in S : m <= n,
              LAMBDA least : <<least>> \o SortedPowers(S \ {least}))

RECURSIVE IterateLoop(_, _, _, _, _)
IterateLoop(sorted, i, current, previousPower, powersCalculated) ==
    IF i > Len(sorted) THEN powersCalculated
    ELSE Bind(repeatedSquare(current, sorted[i] - previousPower),
              LAMBDA next :
                  Bind((sorted[i] :> next) @@ powersCalculated,
                       LAMBDA calculated :
                           IterateLoop(sorted, i + 1, next, sorted[i],
                                       calculated)))

\* The Map returned by iterateSquarings, as a function on the powers.
iterateSquarings(x, powersToCalculate) ==
    Bind(<<x, SortedPowers(powersToCalculate)>>,
         LAMBDA arg : IterateLoop(arg[2], 1, arg[1], 0, <<>>))

\* The list as it was handed in, which the sort of iterateSquarings replaces.
KeptOrder(list) == list

\* [...powersToCalculate].sort((a, b) => a - b) on a list, repetitions kept.
RECURSIVE SortAscending(_)
SortAscending(list) ==
    IF list = <<>> THEN <<>>
    ELSE Bind(CHOOSE i \in 1..Len(list) :
                  \A j \in 1..Len(list) : list[i] <= list[j],
              LAMBDA i : <<list[i]>> \o
                         SortAscending(SubSeq(list, 1, i - 1) \o
                                       SubSeq(list, i + 1, Len(list))))

\* iterateSquarings on a list of powers in any order: a repeated power
\* squares zero times and sets its key again.
iterateSquaringsOfList(x, powersToCalculate) ==
    Bind(<<x, SortAscending(powersToCalculate)>>,
         LAMBDA arg : IterateLoop(arg[2], 1, arg[1], 0, <<>>))

(***************************************************************************)
(* src/unnamed/part_005 (wesolowski.ts)                                    *)
(***************************************************************************)
\* The k of approximateParameters when Math.round is handed NaN: Math.log of
\* a negative number is NaN, and Math.max(1, NaN) is NaN.
NaN == -1

\* approximateParameters(t) = [l, k] for 1 <= t < 1224, where l = 1 and k is
\* the rounded floating-point expression of the source.
approximateParameters(t) ==
    <<1,
      IF t <= 2 THEN NaN
      ELSE IF t = 3 THEN 4
      ELSE IF t = 4 THEN 2
      ELSE IF t <= 18 THEN 1
      ELSE IF t <= 95 THEN 2
      ELSE IF t <= 358 THEN 3
      ELSE 4>>

\* 1 << k on numbers: the shift count is taken modulo 32, and NaN counts 0.
ShiftLeftOne(k) == IF k = NaN THEN 1 ELSE 2 ^ (k % 32)

\* k >> 1 on numbers: NaN becomes 0.
ShiftRightOne(k) == IF k = NaN THEN 0 ELSE k \div 2

\* Math.ceil(t / (k * l)) as the bound of `i < endOfLoop`: no i is below
\* NaN.
EndOfLoop(t, k, l) == IF k = NaN THEN 0 ELSE (t + k * l - 1) \div (k * l)

\* getBlock with the factor 2^(k-1) in place of (2 >> 1) << k.
getBlockHalved(i, k, t, b) ==
    Bind(modPow(2, t - k * (i + 1), b),
         LAMBDA res : TDiv(res * 2 ^ (k - 1), b))

getBlock(i, k, t, b) ==
    Bind(modPow(2, t - k * (i + 1), b), LAMBDA res : TDiv(res * 2 ^ k, b))

\* The loop `for (i = 0; i < endOfLoop; i++)` of evalOptimized: ys at its end.
RECURSIVE BlockLoop(_, _, _, _, _, _, _, _)
BlockLoop(i, ys, j, b, t, k, l, powers) ==
    IF i >= EndOfLoop(t, k, l) THEN ys
    ELSE IF t < k * (i * l + j + 1)
    THEN BlockLoop(i + 1, ys, j, b, t, k, l, powers)
    ELSE Bind(getBlock(i * l, k, t, b),
              LAMBDA blockValue :
                  Bind([ys EXCEPT ![blockValue] =
                                      multiply(@, powers[i * k * l])],
                       LAMBDA next :
                           BlockLoop(i + 1, next, j, b, t, k, l, powers)))

\* z after `z = z.multiply(ys.get(key))` for key = first, first + step, ...
\* taken count times.
RECURSIVE MultiplyKeys(_, _, _, _, _)
MultiplyKeys(ys, z, first, step, count) ==
    IF count <= 0 THEN z
    ELSE Bind(multiply(z, ys[first]),
              LAMBDA next :
                  MultiplyKeys(ys, next, first + step, step, count - 1))

\* The loop `for (b1 = 0; b1 < k1Exp; b1++)` of evalOptimized: x at its end.
RECURSIVE HighHalfLoop(_, _, _, _, _, _)
HighHalfLoop(b1, x, ys, k0Exp, k1Exp, identityForm) ==
    IF b1 >= k1Exp THEN x
    ELSE Bind(pow(MultiplyKeys(ys, identityForm, b1 * k0Exp, 1, k0Exp),
                  b1 * k0Exp),
              LAMBDA z :
                  Bind(multiply(x, z),
                       LAMBDA next :
                           HighHalfLoop(b1 + 1, next, ys, k0Exp, k1Exp,
                                        identityForm)))

\* The loop `for (b0 = 0; b0 < k0Exp; b0++)` of evalOptimized: x at its end.
RECURSIVE LowHalfLoop(_, _, _, _, _, _)
LowHalfLoop(b0, x, ys, k0Exp, k1Exp, identityForm) ==
    IF b0 >= k0Exp THEN x
    ELSE Bind(pow(MultiplyKeys(ys, identityForm, b0, k0Exp, k1Exp), b0),
              LAMBDA z :
                  Bind(multiply(x, z),
                       LAMBDA next :
                           LowHalfLoop(b0 + 1, next, ys, k0Exp, k1Exp,
                                       identityForm)))

\* The loop `for (j = l - 1; j >= 0; j--)` of evalOptimized: x at its end.
RECURSIVE EvalLoop(_, _, _, _, _, _, _, _)
EvalLoop(j, x, identityForm, b, t, k, l, powers) ==
    IF j < 0 THEN x
    ELSE Bind(<<ShiftLeftOne(ShiftRightOne(k)),
                ShiftLeftOne(IF k = NaN THEN NaN ELSE k - ShiftRightOne(k)),
                pow(x, ShiftLeftOne(k)),
                BlockLoop(0, [block \in 0..(ShiftLeftOne(k) - 1) |->
                                 identityForm],
                          j, b, t, k, l, powers)>>,
              LAMBDA loop :
                  Bind(HighHalfLoop(0, loop[3], loop[4], loop[1], loop[2],
                                    identityForm),
                       LAMBDA high :
                           Bind(LowHalfLoop(0, high, loop[4], loop[1],
                                            loop[2], identityForm),
                                LAMBDA low :
                                    EvalLoop(j - 1, low, identityForm,
                                             b, t, k, l, powers))))

evalOptimized(h, b, t, k, l, powers) ==
    Bind(<<identity(h), powers>>,
         LAMBDA arg :
             EvalLoop(l - 1, arg[1], arg[1], b, t, k, l, arg[2]))

\* The bytes of new TextEncoder().encode('prime').
primeBytes == <<112, 114, 105, 109, 101>>

\* The bytes hashPrime hashes at counter j: 'prime', u64ToBytes(j), seed.
HashPrimeInput(j, seed) == primeBytes \o u64ToBytes(j) \o seed

\* The candidate of hashPrime for a hash whose leading bytes are prefix.
HashPrimeCandidate(prefix) == bytesToBigInt(prefix)

\* The size with `>> 3` in place of `>> 4`.
WesolowskiSizeShiftedByThree(intSizeBits) == (intSizeBits + 16) \div 8

\* size = (intSizeBits + 16) >> 4 of generateProof, verifyProof, serialize
\* and verify.
WesolowskiSize(intSizeBits) == (intSizeBits + 16) \div 16

\* The form x of solve and verify of both VDFs.
Generator(disc) == fromAbDiscriminant(2, 1, disc)

\* powersToCalculate of WesolowskiVDF.solve, q = l * k: `i <= NaN` is false.
WesolowskiPowerIndices(difficulty, k, l) ==
    IF k = NaN THEN {difficulty}
    ELSE {i * (l * k) : i \in 0..(difficulty \div (l * k) + 1)}
             \cup {difficulty}

WesolowskiPowers(difficulty, disc) ==
    Bind(approximateParameters(difficulty),
         LAMBDA lk :
             iterateSquarings(Generator(disc),
                              WesolowskiPowerIndices(difficulty, lk[2],
                                                     lk[1])))

\* The seed [xBuf, yBuf] of hashPrime, as one byte sequence, or what
\* serialize threw.
WesolowskiSeed(x, y, intSizeBits) ==
    Bind(<<serialize(x, WesolowskiSize(intSizeBits)),
           serialize(y, WesolowskiSize(intSizeBits))>>,
         LAMBDA buf :
             IF buf[1].err # "none" THEN buf[1]
             ELSE IF buf[2].err # "none" THEN buf[2]
             ELSE Returned(buf[1].bytes \o buf[2].bytes))

\* serialize(proof, y, intSizeBits) of wesolowski.ts.
WesolowskiSerialize(proof, y, intSizeBits) ==
    Bind(<<serialize(y, WesolowskiSize(intSizeBits)),
           serialize(proof, WesolowskiSize(intSizeBits))>>,
         LAMBDA buf :
             IF buf[1].err # "none" THEN buf[1]
             ELSE IF buf[2].err # "none" THEN buf[2]
             ELSE Returned(buf[1].bytes \o buf[2].bytes))

\* The rest of solve once hashPrime has returned b inside generateProof.
WesolowskiProve(difficulty, disc, b, intSizeBits) ==
    Bind(<<approximateParameters(difficulty),
           WesolowskiPowers(difficulty, disc)>>,
         LAMBDA arg :
             WesolowskiSerialize(
                 evalOptimized(Generator(disc), b, difficulty,
                               arg[1][2], arg[1][1], arg[2]),
                 arg[2][difficulty], intSizeBits))

\* The rest of verifyProof once hashPrime has returned b: "accepted" when it
\* returns, otherwise the name of what it throws.
WesolowskiCheck(x, y, proof, t, b) ==
    Bind(multiply(pow(proof, b), pow(x, modPow(2, t, b))),
         LAMBDA result :
             IF result.err # "none" THEN result.err
             ELSE IF equals(result, y) THEN "accepted"
             ELSE "InvalidProof")

(***************************************************************************)
(* src/src/pietrzak.ts                                                     *)
(***************************************************************************)
\* approximateI(t) for even t in 66..7442: the rounded floating-point
\* expression of the source.
approximateI(t) == IF t < 208 THEN 1 ELSE IF t < 1376 THEN 2 ELSE 3

\* currT after `currT >>= 1; if ((currT & 1) !== 0) currT += 1`.
HalveRoundingUpToEven(currT) ==
    IF (currT \div 2) % 2 = 1 THEN currT \div 2 + 1 ELSE currT \div 2

\* intermediateTs of cacheIndicesForCount after i halvings.
RECURSIVE IntermediateTs(_, _)
IntermediateTs(currT, i) ==
    IF i <= 0 THEN <<>>
    ELSE <<currT \div 2>> \o IntermediateTs(HalveRoundingUpToEven(currT), i - 1)

\* sumCombinations, as the set of the sums it lists.
RECURSIVE SumCombinationsFrom(_, _, _)
SumCombinationsFrom(numbers, index, combinations) ==
    IF index > Len(numbers) THEN combinations \ {0}
    ELSE Bind(combinations \cup {numbers[index] + combo :
                                    combo \in combinations},
              LAMBDA next : SumCombinationsFrom(numbers, index + 1, next))

sumCombinations(numbers) == SumCombinationsFrom(numbers, 1, {0})

cacheIndicesForCount(t) ==
    sumCombinations(IntermediateTs(t, approximateI(t))) \cup {t}

\* The list ts of calculateFinalT.
RECURSIVE FinalTs(_)
FinalTs(currT) ==
    IF currT = 2 THEN <<2, 1>>
    ELSE <<currT>> \o FinalTs(HalveRoundingUpToEven(currT))

\* calculateFinalT for a t whose list has at least delta entries.
calculateFinalT(t, delta) ==
    Bind(FinalTs(t), LAMBDA ts : ts[Len(ts) - delta + 1])

\* Math.clz32 of a number in 1..2^31 - 1.
Clz32(n) == 32 - bitLength(n)

\* (numerator & (1 << count)) !== 0 for 0 <= numerator < 2^31: the shift
\* count is taken modulo 32, and 1 << 31 is the sign bit.
BitIsSet(numerator, count) ==
    IF count % 32 = 31 THEN FALSE
    ELSE (numerator \div 2 ^ (count % 32)) % 2 = 1

\* The loop over b that multiplies rProd by rs[idx]; rs is 1-based here.
RECURSIVE RProdLoop(_, _, _, _, _)
RProdLoop(b, numBits, numerator, rs, rProd) ==
    IF b < 0 THEN rProd
    ELSE Bind(IF /\ ~BitIsSet(numerator, b + 1)
                 /\ numBits - b - 1 < Len(rs)
              THEN rProd * rs[numBits - b - 1 + 1]
              ELSE rProd,
              LAMBDA next : RProdLoop(b - 1, numBits, numerator, rs, next))

\* The loop over b that adds ts[numBits - b - 1] to tSum; ts is 1-based
\* here, and adding an entry the list does not have makes tSum NaN.
RECURSIVE TSumLoop(_, _, _, _, _)
TSumLoop(b, numBits, numerator, ts, tSum) ==
    IF b >= numBits THEN tSum
    ELSE Bind(IF ~BitIsSet(numerator, b + 1) THEN tSum
              ELSE IF tSum = NaN \/ numBits - b - 1 >= Len(ts) THEN NaN
              ELSE tSum + ts[numBits - b - 1 + 1],
              LAMBDA next : TSumLoop(b + 1, numBits, numerator, ts, next))

\* The loop `for (numerator = 1; numerator < denominator; numerator += 2)`
\* of generateProof: mu at its end.
RECURSIVE CachedMuLoop(_, _, _, _, _, _, _)
CachedMuLoop(numerator, denominator, halfT, rs, ts, powers, mu) ==
    IF numerator >= denominator THEN mu
    ELSE Bind(<<RProdLoop(62 - Clz32(denominator) - 1,
                          62 - Clz32(denominator), numerator, rs, 1),
                TSumLoop(0, 62 - Clz32(denominator), numerator, ts, halfT)>>,
              LAMBDA found :
                  Bind(IF found[2] # NaN /\ found[2] \in DOMAIN powers
                       THEN multiply(mu, pow(powers[found[2]], found[1]))
                       ELSE mu,
                       LAMBDA next :
                           CachedMuLoop(numerator + 2, denominator, halfT,
                                        rs, ts, powers, next)))

\* The bytes generateRValue hashes, or what serialize() threw.
RValueInput(x, y, sqrtMu) ==
    Bind(<<serialize(x, DefaultSize(x)), serialize(y, DefaultSize(y)),
           serialize(sqrtMu, DefaultSize(sqrtMu))>>,
         LAMBDA buf :
             IF buf[1].err # "none" THEN buf[1]
             ELSE IF buf[2].err # "none" THEN buf[2]
             ELSE IF buf[3].err # "none" THEN buf[3]
             ELSE Returned(buf[1].bytes \o buf[2].bytes \o buf[3].bytes))

\* The r of generateRValue for a hash whose leading bytes are prefix.
RValue(prefix) == bytesToBigInt(prefix)

\* sha256 through a memo of the inputs hashed so far: the leading bytes of
\* the hash of key, which are answer when key was never hashed before.
HashOf(key, memo, answer) ==
    IF key \in DOMAIN memo THEN memo[key] ELSE answer

\* The first failure among the forms, or "none".
FirstError(forms) ==
    IF \A n \in DOMAIN forms : forms[n].err = "none" THEN "none"
    ELSE forms[CHOOSE n \in DOMAIN forms :
                   /\ forms[n].err # "none"
                   /\ \A m \in DOMAIN forms : forms[m].err # "none" => n <= m].err

\* mu of one pass of the while loop of generateProof.
RoundMu(st, x, halfT, ts, i, powers) ==
    IF st.roundIndex < i
    THEN CachedMuLoop(1, 2 ^ (st.roundIndex + 1), halfT, st.rs, ts, powers,
                      identity(x))
    ELSE repeatedSquare(st.xLast, halfT)

\* The end of one pass of the while loop of generateProof, from lastR on.
RoundEnd(st, halfT, ts, mu, key, prefix) ==
    Bind(<<multiply(pow(st.xLast, RValue(prefix)), mu),
           IF halfT % 2 # 0
           THEN square(multiply(pow(mu, RValue(prefix)), st.yLast))
           ELSE multiply(pow(mu, RValue(prefix)), st.yLast)>>,
         LAMBDA next :
             [xLast |-> next[1],
              yLast |-> next[2],
              currT |-> HalveRoundingUpToEven(st.currT),
              roundIndex |-> st.roundIndex + 1,
              mus |-> Append(st.mus, mu),
              rs |-> Append(st.rs, RValue(prefix)),
              ts |-> ts,
              memo |-> st.memo @@ (key :> prefix),
              err |-> FirstError(next)])

\* One pass of the while loop of generateProof; hashes[n] is what sha256
\* gives in round n for an input it has not hashed before.
GenerateRound(st, x, y, i, powers, hashes) ==
    Bind(<<st.currT \div 2, Append(st.ts, st.currT \div 2)>>,
         LAMBDA half :
             Bind(RoundMu(st, x, half[1], half[2], i, powers),
                  LAMBDA mu :
                      Bind(RValueInput(x, y, mu),
                           LAMBDA key :
                               IF key.err # "none"
                               THEN [st EXCEPT !.err = key.err]
                               ELSE RoundEnd(st, half[1], half[2], mu,
                                             key.bytes,
                                             HashOf(key.bytes, st.memo,
                                                    hashes[st.roundIndex
                                                               + 1])))))

RECURSIVE GenerateLoop(_, _, _, _, _, _, _)
GenerateLoop(st, x, y, finalT, i, powers, hashes) ==
    IF st.err # "none" \/ st.currT = finalT THEN st
    ELSE Bind(GenerateRound(st, x, y, i, powers, hashes),
              LAMBDA next :
                  GenerateLoop(next, x, y, finalT, i, powers, hashes))

\* generateProof of pietrzak.ts: the record of its loop at the end, with the
\* proof in mus and the hash memo in memo.
PietrzakGenerateProof(x, iterations, delta, powers, memo, hashes) ==
    Bind(<<x, powers>>,
         LAMBDA arg :
             GenerateLoop([xLast |-> arg[1], yLast |-> arg[2][iterations],
                           currT |-> iterations, roundIndex |-> 0,
                           mus |-> <<>>, rs |-> <<>>, ts |-> <<>>,
                           memo |-> memo, err |-> "none"],
                          arg[1], arg[2][iterations],
                          calculateFinalT(iterations, delta),
                          approximateI(iterations), arg[2], hashes))

\* The number of passes of the while loop of generateProof.
RECURSIVE RoundsFrom(_, _)
RoundsFrom(currT, finalT) ==
    IF currT = finalT THEN 0
    ELSE 1 + RoundsFrom(HalveRoundingUpToEven(currT), finalT)

PietrzakRounds(t) == RoundsFrom(t, calculateFinalT(t, 8))

\* The size with a division by 8 in place of the division by 16.
PietrzakSizeDividedByEight(intSizeBits) == (intSizeBits + 16 + 7) \div 8

\* size = Math.ceil((intSizeBits + 16) / 16) of serialize and verify.
PietrzakSize(intSizeBits) == (intSizeBits + 16 + 15) \div 16

\* The loop of serialize over proof[index..], appended to result.
RECURSIVE SerializeLoop(_, _, _, _)
SerializeLoop(proof, index, size, result) ==
    IF result.err # "none" \/ index > Len(proof) THEN result
    ELSE Bind(serialize(proof[index], size),
              LAMBDA proofBytes :
                  SerializeLoop(proof, index + 1, size,
                                IF proofBytes.err # "none" THEN proofBytes
                                ELSE Returned(result.bytes
                                                  \o proofBytes.bytes)))

\* serialize(proof, y, intSizeBits) of pietrzak.ts.
PietrzakSerialize(proof, y, intSizeBits) ==
    SerializeLoop(proof, 1, PietrzakSize(intSizeBits),
                  serialize(y, PietrzakSize(intSizeBits)))

\* deserializeProof on a blob whose length is a multiple of the element
\* length: the forms, the first failure ending the loop.
RECURSIVE DeserializeLoop(_, _, _, _)
DeserializeLoop(proofBlob, discriminant, elementLength, proof) ==
    IF proofBlob = <<>> THEN proof
    ELSE Bind(fromBytes(SubSeq(proofBlob, 1, elementLength), discriminant),
              LAMBDA element :
                  IF element.err # "none" THEN Append(proof, element)
                  ELSE DeserializeLoop(SubSeq(proofBlob, elementLength + 1,
                                              Len(proofBlob)),
                                       discriminant, elementLength,
                                       Append(proof, element)))

deserializeProof(proofBlob, discriminant, length) ==
    DeserializeLoop(proofBlob, discriminant, length * 2, <<>>)

\* checkDifficulty of WesolowskiVDF with `<` in place of `<=`.
CheckDifficultyAllowingZero(difficulty) == ~(difficulty < 0)

\* WesolowskiVDF.checkDifficulty and PietrzakVDF.checkDifficulty: TRUE when
\* they return, FALSE when they throw InvalidIterations.
WesolowskiCheckDifficulty(difficulty) == ~(difficulty <= 0)

PietrzakCheckDifficulty(difficulty) ==
    ~(difficulty % 2 # 0) /\ ~(difficulty < 66)

\* What PietrzakVDF.solve returns or throws after checkDifficulty, with the
\* hash memo it leaves.
PietrzakSolve(difficulty, disc, intSizeBits, memo, hashes) ==
    Bind(iterateSquarings(Generator(disc), cacheIndicesForCount(difficulty)),
         LAMBDA powers :
             Bind(PietrzakGenerateProof(Generator(disc), difficulty, 8,
                                        powers, memo, hashes),
                  LAMBDA st :
                      [out |-> IF st.err # "none" THEN Thrown(st.err)
                               ELSE PietrzakSerialize(st.mus,
                                                      powers[difficulty],
                                                      intSizeBits),
                       memo |-> st.memo]))

\* The bytes hashed by a verifier that gives generateRValue the x and y of
\* the round.
RoundRValueInput(st, mu, xInitial, yInitial) == RValueInput(st.x, st.y, mu)

\* The bytes hashed by `generateRValue(xInitial, yInitial, muCopy, ...)` of
\* verifyProof.
VerifierRValueInput(st, mu, xInitial, yInitial) ==
    RValueInput(xInitial, yInitial, mu)

\* One pass of `for (const mu of proof)` of verifyProof; st holds x, y,
\* currT and the hash memo.
VerifyRound(st, mu, xInitial, yInitial, answer) ==
    Bind(VerifierRValueInput(st, mu, xInitial, yInitial),
         LAMBDA key :
             IF key.err # "none" THEN [st EXCEPT !.err = key.err]
             ELSE Bind(HashOf(key.bytes, st.memo, answer),
                       LAMBDA prefix :
                           Bind(<<multiply(pow(st.x, RValue(prefix)), mu),
                                  IF (st.currT \div 2) % 2 # 0
                                  THEN square(multiply(
                                           st.y, pow(mu, RValue(prefix))))
                                  ELSE multiply(st.y,
                                                pow(mu, RValue(prefix)))>>,
                                LAMBDA next :
                                    [x |-> next[1], y |-> next[2],
                                     currT |->
                                         HalveRoundingUpToEven(st.currT),
                                     memo |-> st.memo @@ (key.bytes :> prefix),
                                     err |-> FirstError(next)])))

RECURSIVE VerifyLoop(_, _, _, _, _, _)
VerifyLoop(st, proof, index, xInitial, yInitial, hashes) ==
    IF st.err # "none" \/ index > Len(proof) THEN st
    ELSE Bind(VerifyRound(st, proof[index], xInitial, yInitial,
                          hashes[index]),
              LAMBDA next :
                  VerifyLoop(next, proof, index + 1, xInitial, yInitial,
                             hashes))

\* (1n << BigInt(currT)).toString(2): a one and currT zeros.
PowerOfTwoBits(currT) == <<"1">> \o [n \in 1..currT |-> "0"]

\* verifyProof of pietrzak.ts: "accepted" when it returns, otherwise the
\* name of what it throws, with the hash memo it leaves.
PietrzakVerifyProof(xInitial, yInitial, proof, t, memo, hashes) ==
    Bind(VerifyLoop([x |-> xInitial, y |-> yInitial, currT |-> t,
                     memo |-> memo, err |-> "none"],
                    proof, 1, xInitial, yInitial, hashes),
         LAMBDA st :
             IF st.err # "none" THEN [verdict |-> st.err, memo |-> st.memo]
             ELSE Bind(PowBits(st.x, PowerOfTwoBits(st.currT)),
                       LAMBDA xFinal :
                           [verdict |-> IF xFinal.err # "none" THEN xFinal.err
                                        ELSE IF equals(xFinal, st.y)
                                        THEN "accepted"
                                        ELSE "InvalidProof",
                            memo |-> st.memo]))

\* PietrzakVDF.verify after checkDifficulty.
PietrzakVerify(difficulty, allegedSolution, disc, intSizeBits, memo, hashes) ==
    Bind(PietrzakSize(intSizeBits),
         LAMBDA length :
             IF Len(allegedSolution) < 2 * length
             THEN [verdict |-> "InvalidProof", memo |-> memo]
             ELSE IF (Len(allegedSolution) - 2 * length) % (2 * length) # 0
             THEN [verdict |-> "InvalidProof", memo |-> memo]
             ELSE Bind(<<deserializeProof(
                             SubSeq(allegedSolution, 2 * length + 1,
                                    Len(allegedSolution)), disc, length),
                         fromBytes(SubSeq(allegedSolution, 1, 2 * length),
                                   disc)>>,
                       LAMBDA decoded :
                           IF FirstError(decoded[1]) # "none"
                           THEN [verdict |-> FirstError(decoded[1]),
                                 memo |-> memo]
                           ELSE IF decoded[2].err # "none"
                           THEN [verdict |-> decoded[2].err, memo |-> memo]
                           ELSE PietrzakVerifyProof(Generator(disc),
                                                    decoded[2], decoded[1],
                                                    difficulty, memo,
                                                    hashes)))

(***************************************************************************)
(* Byte-codec harness: the functions applied to bounded inputs             *)
(***************************************************************************)
MaxSmallValue == 300
MaxWidth == 3
MaxCounterValue == 600

\* Values at the edges of the one-, two- and three-byte ranges.
EdgeValues ==
    {32767, 32768, -32768, -32769, 65535, 65536, -65536, -65537,
     8388607, 8388608, -8388608, -8388609}

CodecValues == (-MaxSmallValue..MaxSmallValue) \cup EdgeValues

\* The least number of bytes whose two's complement range holds v.
RECURSIVE MinBytes(_)
MinBytes(v) ==
    IF -128 <= v /\ v < 128 THEN 1
    ELSE 1 + MinBytes(IF v < 0 THEN -((-v + 255) \div 256) ELSE v \div 256)

\* The harnesses that a specification does not drive stay idle.
BytesIdle ==
    /\ bop = "idle"
    /\ bv = 0
    /\ bw = 1
    /\ bres = Returned(<<>>)
    /\ bdec = 0

GroupIdle ==
    /\ gop = "idle"
    /\ gx = ClassGroup(1, 1, 2, -7)
    /\ gy = ClassGroup(1, 1, 2, -7)

VdfIdle ==
    /\ vkind = "none"
    /\ vcaller = "none"
    /\ vpc = "idle"
    /\ vt = 0
    /\ vdisc = -7
    /\ vj = 0
    /\ vseed = <<>>
    /\ vhashed = {}
    /\ vprimes = <<>>
    /\ vhashes = <<>>
    /\ vb = 0
    /\ vsolution = <<>>
    /\ valleged = <<>>
    /\ vtamper = "none"
    /\ vverdict = "none"

InitBytes ==
    /\ bop = "init"
    /\ bv \in CodecValues \cup (0..MaxCounterValue)
    /\ bw \in 1..MaxWidth
    /\ bres = Returned(<<>>)
    /\ bdec = 0
    /\ GroupIdle
    /\ VdfIdle

BigIntToBytesCall ==
    /\ bop = "init"
    /\ bv \in CodecValues
    /\ bop' = "bigIntToBytes"
    /\ bres' = bigIntToBytes(bv, bw)
    /\ UNCHANGED <<bv, bw, bdec>>
    /\ UNCHANGED <<gvars, vvars>>

BytesToBigIntCall ==
    /\ bop = "bigIntToBytes"
    /\ bres.err = "none"
    /\ bop' = "bytesToBigInt"
    /\ bdec' = bytesToBigInt(bres.bytes)
    /\ UNCHANGED <<bv, bw, bres>>
    /\ UNCHANGED <<gvars, vvars>>

U64ToBytesCall ==
    /\ bop = "init"
    /\ bv \in 0..MaxCounterValue
    /\ bop' = "u64ToBytes"
    /\ bres' = Returned(u64ToBytes(bv))
    /\ UNCHANGED <<bv, bw, bdec>>
    /\ UNCHANGED <<gvars, vvars>>

NextBytes ==
    \/ BigIntToBytesCall
    \/ BytesToBigIntCall
    \/ U64ToBytesCall

SpecBytes == InitBytes /\ [][NextBytes]_vars

(***************************************************************************)
(* Class-group harness: the methods applied to forms of discriminant D     *)
(***************************************************************************)
\* Negative discriminants with D = 1 (mod 8) and -D a 16-bit prime.
Discriminants == {-32887, -32983}

MaxStartA == 2
MaxStartB == 13
MaxRepeat == 3
MaxExponent == 9

\* The pairs (a, b) for which (a, b, (b*b - D) / 4a) is a form of
\* discriminant D.
StartPairs(D) ==
    {ab \in (1..MaxStartA) \X (-MaxStartB..MaxStartB) :
        (ab[2] * ab[2] - D) % (4 * ab[1]) = 0}

InitGroup ==
    /\ BytesIdle
    /\ VdfIdle
    /\ gop = "fromAbDiscriminant"
    /\ \E D \in Discriminants :
          \E p \in StartPairs(D), q \in StartPairs(D) :
              /\ gx = fromAbDiscriminant(p[1], p[2], D)
              /\ gy = fromAbDiscriminant(q[1], q[2], D)

MultiplyCall ==
    /\ gop' = "multiply"
    /\ gx' = multiply(gx, gy)
    /\ UNCHANGED gy
    /\ UNCHANGED <<bvars, vvars>>

SquareCall ==
    /\ gop' = "square"
    /\ gx' = square(gx)
    /\ UNCHANGED gy
    /\ UNCHANGED <<bvars, vvars>>

RepeatedSquareCall ==
    /\ \E n \in 0..MaxRepeat :
          gx' = repeatedSquare(gx, n)
    /\ gop' = "repeatedSquare"
    /\ UNCHANGED gy
    /\ UNCHANGED <<bvars, vvars>>

PowCall ==
    /\ \E exponent \in 0..MaxExponent :
          gx' = pow(gx, exponent)
    /\ gop' = "pow"
    /\ UNCHANGED gy
    /\ UNCHANGED <<bvars, vvars>>

ReduceCall ==
    /\ gop' = "reduce"
    /\ gx' = reduce(gx)
    /\ UNCHANGED gy
    /\ UNCHANGED <<bvars, vvars>>

\* serialize() followed by fromBytes on the bytes it returned.
SerializeFromBytesCall ==
    /\ serialize(gx, DefaultSize(gx)).err = "none"
    /\ gop' = "fromBytes"
    /\ gx' = fromBytes(serialize(gx, DefaultSize(gx)).bytes, gx.discriminant)
    /\ UNCHANGED gy
    /\ UNCHANGED <<bvars, vvars>>

\* clone(): the second operand becomes a copy of the first.
CloneCall ==
    /\ gop' = "clone"
    /\ gy' = gx
    /\ UNCHANGED gx
    /\ UNCHANGED <<bvars, vvars>>

NextGroup ==
    \/ MultiplyCall
    \/ SquareCall
    \/ RepeatedSquareCall
    \/ PowCall
    \/ ReduceCall
    \/ SerializeFromBytesCall
    \/ CloneCall

SpecGroup == InitGroup /\ [][NextGroup]_vars

(***************************************************************************)
(* Reduction harness: reduce applied to forms that `new ClassGroup(a, b,   *)
(* c, D)` builds without reducing them, and applied again to its result    *)
(***************************************************************************)
MaxUnreducedA == 40
MaxUnreducedB == 60

\* The forms (a, b, c) with a > 0 and b*b - 4ac = D, reduced or not.
UnreducedForms(D) ==
    {ClassGroup(a, b, (b * b - D) \div (4 * a), D) :
        <<a, b>> \in {ab \in (1..MaxUnreducedA)
                              \X (-MaxUnreducedB..MaxUnreducedB) :
                        (ab[2] * ab[2] - D) % (4 * ab[1]) = 0}}

InitReduce ==
    /\ BytesIdle
    /\ VdfIdle
    /\ gop = "new"
    /\ \E D \in Discriminants : gx \in UnreducedForms(D)
    /\ gy = gx

\* reduce() on the form; the operand keeps a clone of the receiver as it
\* was before the call.
ReduceFormCall ==
    /\ gop \in {"new", "reduce"}
    /\ gop' = IF gop = "new" THEN "reduce" ELSE "reduceAgain"
    /\ gy' = gx
    /\ gx' = reduce(gx)
    /\ UNCHANGED <<bvars, vvars>>

NextReduce == ReduceFormCall

SpecReduce == InitReduce /\ [][NextReduce]_vars

(***************************************************************************)
(* Serialization harness: serialize with the default size or a larger one  *)
(* on reduced forms, then fromBytes on the bytes it returned               *)
(***************************************************************************)
\* Negative discriminants with D = 1 (mod 8) and -D prime, of 5, 7, 12 and
\* 16 bits.
SerializeDiscriminants == {-23, -71, -4079, -32887, -32983}

MaxExtraSize == 2

InitSerialize ==
    /\ VdfIdle
    /\ bop = "idle"
    /\ bv = 0
    /\ bw = 1
    /\ bres = Returned(<<>>)
    /\ bdec = 0
    /\ gop = "reduce"
    /\ \E D \in SerializeDiscriminants :
          \E f \in UnreducedForms(D) : gx = reduce(f)
    /\ gy = gx

\* serialize(targetSize) with targetSize the default size plus extra, which
\* is what serialize() takes when extra is 0; bw and bres hold the size and
\* what the call returned or threw.
SerializeCall ==
    /\ gop = "reduce"
    /\ \E extra \in 0..MaxExtraSize :
          /\ bw' = DefaultSize(gx) + extra
          /\ bres' = serialize(gx, DefaultSize(gx) + extra)
    /\ gop' = "serialize"
    /\ UNCHANGED <<bop, bv, bdec, gx, gy>>
    /\ UNCHANGED vvars

\* ClassGroup.fromBytes on the bytes serialize returned.
FromBytesCall ==
    /\ gop = "serialize"
    /\ bres.err = "none"
    /\ gop' = "fromBytes"
    /\ gy' = fromBytes(bres.bytes, gx.discriminant)
    /\ UNCHANGED <<bvars, gx>>
    /\ UNCHANGED vvars

NextSerialize ==
    \/ SerializeCall
    \/ FromBytesCall

SpecSerialize == InitSerialize /\ [][NextSerialize]_vars

(***************************************************************************)
(* Group-law harness: multiply by the identity, square of the identity and *)
(* pow, each applied to a reduced form; the operand keeps the form as it   *)
(* was before the call, and bv the exponent                                *)
(***************************************************************************)
InitLaws ==
    /\ VdfIdle
    /\ BytesIdle
    /\ gop = "reduce"
    /\ \E D \in SerializeDiscriminants :
          \E f \in UnreducedForms(D) : gx = reduce(f)
    /\ gy = gx

\* f.multiply(f.identity())
MultiplyByIdentityCall ==
    /\ gop = "reduce"
    /\ gop' = "multiplyByIdentity"
    /\ gx' = multiply(gx, identity(gx))
    /\ UNCHANGED <<gy, bvars, vvars>>

\* f.identity().multiply(f)
IdentityMultiplyCall ==
    /\ gop = "reduce"
    /\ gop' = "identityMultiply"
    /\ gx' = multiply(identity(gx), gx)
    /\ UNCHANGED <<gy, bvars, vvars>>

\* f.identity().square()
IdentitySquareCall ==
    /\ gop = "reduce"
    /\ gop' = "identitySquare"
    /\ gx' = square(identity(gx))
    /\ gy' = identity(gx)
    /\ UNCHANGED <<bvars, vvars>>

\* f.pow(e)
PowExponentCall ==
    /\ gop = "reduce"
    /\ gop' = "pow"
    /\ \E exponent \in 0..MaxExponent :
          /\ bv' = exponent
          /\ gx' = pow(gx, exponent)
    /\ UNCHANGED <<gy, bop, bw, bres, bdec, vvars>>

NextLaws ==
    \/ MultiplyByIdentityCall
    \/ IdentityMultiplyCall
    \/ IdentitySquareCall
    \/ PowExponentCall

SpecLaws == InitLaws /\ [][NextLaws]_vars

(***************************************************************************)
(* src/src/utils.ts: createDiscriminant.  The bytes of randomBytesFromSeed *)
(* are SHA-256 output, which the model draws from small sets; M, the       *)
(* length of the RESIDUES scan and the length of the sieve are scaled so   *)
(* that the candidates fit the integers of the model checker.  M keeps the *)
(* shape of the source's 11095045730 = 2 * 5 * 1109504573: twice five      *)
(* times a prime larger than every residue, and 2 modulo 8.  The `while    *)
(* (true)` of the search runs one window per step, and MaxWindows is more  *)
(* than the windows a search that returns needs from any start here.       *)
(***************************************************************************)
M == 130

ResidueScan == 32

SieveLength == 32

MaxWindows == 4

\* generateResidues(): the r = i % M with r % 8 = 7, in the order of i.
generateResidues ==
    SelectSeq([i \in 1..ResidueScan |-> (i - 1) % M],
              LAMBDA r : r % 8 = 7)

RESIDUES == generateResidues

SIEVE_INFO ==
    <<<<3, 2>>, <<5, 4>>, <<7, 6>>, <<11, 10>>, <<13, 12>>, <<17, 16>>,
      <<19, 18>>, <<23, 22>>, <<29, 28>>, <<31, 30>>, <<37, 36>>,
      <<41, 40>>, <<43, 42>>, <<47, 46>>, <<53, 52>>, <<59, 58>>,
      <<61, 60>>, <<67, 66>>, <<71, 70>>, <<73, 72>>, <<79, 78>>,
      <<83, 82>>, <<89, 88>>, <<97, 96>>>>

\* n | (1n << BigInt(bit)) on a BigInt, which is two's complement with an
\* unbounded sign extension: a negative n >= -2^bit has the bit already.
setBit(n, bit) ==
    IF (n \div (2 ^ bit)) % 2 = 1 THEN n ELSE n + 2 ^ bit

\* createDiscriminant up to the search: the n the first window starts at.
StartOfSearch(randomBytes, length) ==
    LET extra == length % 8
        randomBytesLen == ((length + 7) \div 8) + 2
        nBytes == SubSeq(randomBytes, 1, randomBytesLen - 2)
        last2 == SubSeq(randomBytes, randomBytesLen - 1, randomBytesLen)
        numerator == last2[1] * 256 + last2[2]
        shifted == bytesToBigInt(nBytes) \div (2 ^ ((8 - extra) % 8))
        n == setBit(shifted, length - 1)
        residue == RESIDUES[(numerator % Len(RESIDUES)) + 1]
        rem == TRem(n, M)
    IN  IF residue > rem THEN n + (residue - rem) ELSE n - (rem - residue)

\* sieve[i] after the loop over SIEVE_INFO of the window that starts at n:
\* each [p, q] marks i0 = (n % p) * q % p, i0 + p, i0 + 2p, ...
Sieved(n, i) ==
    \E k \in 1..Len(SIEVE_INFO) :
        LET p == SIEVE_INFO[k][1]
            q == SIEVE_INFO[k][2]
            i0 == TRem(TRem(n, p) * q, p)
        IN  i >= i0 /\ (i - i0) % p = 0

\* The loop `for (let i = 0; i < sieve.length; i++)` from index i on: the
\* index at which `return -candidate` is reached, or sieve.length when the
\* loop runs to its end.
RECURSIVE ScanWindow(_, _)
ScanWindow(n, i) ==
    IF i >= SieveLength THEN SieveLength
    ELSE IF /\ ~Sieved(n, i)
            /\ TRem(n + M * i, 8) = 7
            /\ isProbablePrime(n + M * i, 2)
         THEN i
         ELSE ScanWindow(n, i + 1)

\* The windows the search has left behind when its n is the given one.
WindowsDone(randomBytes, length, n) ==
    (n - StartOfSearch(randomBytes, length)) \div (M * SieveLength)

DiscriminantLengths == {8, 12, 13}

HeadBytes == {0, 7, 90, 159, 255}

TailBytes == {<<hi, lo>> : hi \in {0, 255}, lo \in 0..7}

RandomBytes(length) ==
    {head \o tail : head \in [1..((length + 7) \div 8) -> HeadBytes],
                    tail \in TailBytes}

\* bw is the length argument, bres the bytes of randomBytesFromSeed, bv the
\* n of the search and bdec the discriminant returned.
InitDiscriminant ==
    /\ GroupIdle
    /\ VdfIdle
    /\ bop = "new"
    /\ bv = 0
    /\ bdec = 0
    /\ bw \in DiscriminantLengths
    /\ \E randomBytes \in RandomBytes(bw) : bres = Returned(randomBytes)

CreateDiscriminantCall ==
    /\ bop = "new"
    /\ bop' = "search"
    /\ bv' = StartOfSearch(bres.bytes, bw)
    /\ UNCHANGED <<bw, bres, bdec, gvars, vvars>>

SieveWindow ==
    /\ bop = "search"
    /\ \E i \in {ScanWindow(bv, 0)} :
          IF i < SieveLength
          THEN /\ bop' = "done"
               /\ bdec' = -(bv + M * i)
               /\ bv' = bv
          ELSE /\ WindowsDone(bres.bytes, bw, bv) < MaxWindows
               /\ bv' = bv + M * SieveLength
               /\ UNCHANGED <<bop, bdec>>
    /\ UNCHANGED <<bw, bres, gvars, vvars>>

NextDiscriminant ==
    \/ CreateDiscriminantCall
    \/ SieveWindow

SpecDiscriminant == InitDiscriminant /\ [][NextDiscriminant]_vars

FairSpecDiscriminant == SpecDiscriminant /\ WF_vars(NextDiscriminant)

(***************************************************************************)
(* src/src/utils.ts: the exported extendedGcd, and a harness that calls    *)
(* modPow and the two extended GCDs on small operands of either sign.      *)
(* bv and bw are the first two arguments, bdec is the modulus of modPow    *)
(* and bres holds the values returned.                                     *)
(***************************************************************************)
RECURSIVE extendedGcd(_, _)
extendedGcd(a, b) ==
    IF b = 0 THEN <<a, 1, 0>>
    ELSE Bind(extendedGcd(b, TRem(a, b)),
              LAMBDA inner :
                  <<inner[1], inner[3], inner[2] - TDiv(a, b) * inner[3]>>)

MaxOperand == 7

MaxModulus == 7

InitArithmetic ==
    /\ GroupIdle
    /\ VdfIdle
    /\ bop = "new"
    /\ bv \in -MaxOperand..MaxOperand
    /\ bw \in -MaxOperand..MaxOperand
    /\ bdec \in 1..MaxModulus
    /\ bres = Returned(<<>>)

\* modPow(base, exponent, modulus) with base bv, exponent bw, modulus bdec.
ModPowCall ==
    /\ bop = "new"
    /\ bw >= 0
    /\ bop' = "modPow"
    /\ bres' = Returned(<<modPow(bv, bw, bdec)>>)
    /\ UNCHANGED <<bv, bw, bdec, gvars, vvars>>

ExtendedGcdCall ==
    /\ bop = "new"
    /\ bop' = "extendedGcd"
    /\ bres' = Returned(extendedGcd(bv, bw))
    /\ UNCHANGED <<bv, bw, bdec, gvars, vvars>>

ExtendedGCDCall ==
    /\ bop = "new"
    /\ bop' = "extendedGCD"
    /\ bres' = Returned(extendedGCD(bv, bw))
    /\ UNCHANGED <<bv, bw, bdec, gvars, vvars>>

NextArithmetic ==
    \/ ModPowCall
    \/ ExtendedGcdCall
    \/ ExtendedGCDCall

SpecArithmetic == InitArithmetic /\ [][NextArithmetic]_vars

(***************************************************************************)
(* iterateSquarings harness: gx is the form x, bres holds the list of      *)
(* powers, and gy the Map the call returned, as a function on its keys.    *)
(***************************************************************************)
IterateDiscriminants == {-23, -71, -4079}

MaxPower == 3

MaxPowers == 3

PowerLists == UNION {[1..n -> 0..MaxPower] : n \in 0..MaxPowers}

InitIterate ==
    /\ VdfIdle
    /\ bop = "idle"
    /\ bv = 0
    /\ bw = 1
    /\ bdec = 0
    /\ gop = "new"
    /\ \E D \in IterateDiscriminants :
          \E f \in UnreducedForms(D) : gx = reduce(f)
    /\ gy = gx
    /\ \E powersToCalculate \in PowerLists : bres = Returned(powersToCalculate)

IterateSquaringsCall ==
    /\ gop = "new"
    /\ gop' = "iterateSquarings"
    /\ gy' = iterateSquaringsOfList(gx, bres.bytes)
    /\ UNCHANGED <<bvars, gx, vvars>>

NextIterate == IterateSquaringsCall

SpecIterate == InitIterate /\ [][NextIterate]_vars

(***************************************************************************)
(* evalOptimized harness: gx is the form x, bv the prime B, bw the number  *)
(* of squarings t, bres holds <<k, l>>, and gy the form the call returned. *)
(* The power table holds x squared i * k * l times for every i the call    *)
(* reads, as WesolowskiVDF.solve builds it.                                *)
(***************************************************************************)
EvalDiscriminants == {-4079, -32983}

EvalPrimes == {3, 5, 13, 251, 1021}

MaxEvalT == 14

MaxEvalK == 3

MaxEvalL == 2

InitEval ==
    /\ VdfIdle
    /\ bop = "idle"
    /\ bdec = 0
    /\ gop = "new"
    /\ \E D \in EvalDiscriminants : gx = Generator(D)
    /\ gy = gx
    /\ bv \in EvalPrimes
    /\ bw \in 1..MaxEvalT
    /\ \E k \in 1..MaxEvalK, l \in 1..MaxEvalL : bres = Returned(<<k, l>>)

EvalOptimizedCall ==
    /\ gop = "new"
    /\ gop' = "evalOptimized"
    /\ \E k \in {bres.bytes[1]}, l \in {bres.bytes[2]} :
          gy' = evalOptimized(gx, bv, bw, k, l,
                    iterateSquarings(gx, WesolowskiPowerIndices(bw, k, l)
                                             \cup {bw}))
    /\ UNCHANGED <<bvars, gx, vvars>>

NextEval == EvalOptimizedCall

SpecEval == InitEval /\ [][NextEval]_vars

(***************************************************************************)
(* The two VDFs: solve, an adversary between solve and verify, and verify. *)
(* sha256 is a function the model does not compute: a hash of an input not *)
(* hashed before has any of the leading bytes HashPrefixes, and an input   *)
(* hashed again has the hash it had.  hashPrime runs one pass of its loop  *)
(* per step, because the loop has no bound.                                *)
(***************************************************************************)
\* The intSizeBits of the VDF, and with it the leading bytes of a hash that
\* hashPrime and generateRValue read, scaled from 16 bytes to 2.
IntSizeBits == 16

\* The passes of the loop of hashPrime that the model follows.
MaxCounter == 257

MaxWesolowskiDifficulty == 5

\* The while loop of generateProof runs at most this many times, and an
\* alleged Pietrzak solution holds at most this many proof elements.
MaxRounds == 2

WesolowskiDifficulties == -1..MaxWesolowskiDifficulty

PietrzakDifficulties ==
    {-2, -1, 0, 64, 65, 66, 67, 128, 130, 258}

\* 9 is composite, 11 and 251 are prime, and 0xFFF1 is the prime 65521 read
\* unsigned and -15 read signed.
HashPrefixes == {<<0, 9>>, <<0, 11>>, <<0, 251>>, <<255, 241>>}

\* The bits of a solution that the adversary may flip, counted from the most
\* significant bit of the first byte; the sign bits of the two a fields are
\* left out, for they make the values of reduce outgrow 32 bits.
TamperBits == {1, 15, 16, 31, 47, 48, 63}

\* Alleged solutions that no solve returned.
Forgeries ==
    {<<>>, <<0, 0, 0, 0>>, <<0, 0, 0, 0, 0, 0, 0, 0>>,
     <<0, 0, 0, 0, 0, 0, 0, 0, 0>>}

\* bytes with bit i flipped.
FlipBit(bytes, i) ==
    [bytes EXCEPT ![i \div 8 + 1] =
        IF (@ \div 2 ^ (7 - (i % 8))) % 2 = 1
        THEN @ - 2 ^ (7 - (i % 8))
        ELSE @ + 2 ^ (7 - (i % 8))]

\* WesolowskiVDF.verify after checkDifficulty, up to the call of hashPrime
\* in verifyProof: what it throws, or the forms and the seed.
WesolowskiVerifyStart(allegedSolution, disc, intSizeBits) ==
    IF Len(allegedSolution) # 2 * (2 * WesolowskiSize(intSizeBits))
    THEN [err |-> "InvalidProof"]
    ELSE Bind(<<fromBytes(SubSeq(allegedSolution, 1,
                                 2 * WesolowskiSize(intSizeBits)), disc),
                fromBytes(SubSeq(allegedSolution,
                                 2 * WesolowskiSize(intSizeBits) + 1,
                                 Len(allegedSolution)), disc)>>,
              LAMBDA decoded :
                  IF FirstError(decoded) # "none"
                  THEN [err |-> FirstError(decoded)]
                  ELSE Bind(WesolowskiSeed(Generator(disc), decoded[1],
                                           intSizeBits),
                            LAMBDA seed :
                                IF seed.err # "none" THEN [err |-> seed.err]
                                ELSE [err |-> "none", y |-> decoded[1],
                                      proof |-> decoded[2],
                                      seed |-> seed.bytes]))

InitVdf ==
    /\ BytesIdle
    /\ GroupIdle
    /\ VdfIdle

\* WesolowskiVDF.solve up to the call of hashPrime in generateProof.
WesolowskiSolveBegin ==
    /\ vpc = "idle"
    /\ \E t \in WesolowskiDifficulties, D \in Discriminants :
          /\ vt' = t
          /\ vdisc' = D
          /\ IF ~WesolowskiCheckDifficulty(t)
             THEN /\ vpc' = "done"
                  /\ vverdict' = "InvalidIterations"
                  /\ vseed' = vseed
             ELSE \E seed \in {WesolowskiSeed(Generator(D),
                                              WesolowskiPowers(t, D)[t],
                                              IntSizeBits)} :
                      IF seed.err # "none"
                      THEN /\ vpc' = "done"
                           /\ vverdict' = seed.err
                           /\ vseed' = vseed
                      ELSE /\ vpc' = "hashPrime"
                           /\ vverdict' = "none"
                           /\ vseed' = seed.bytes
    /\ vkind' = "wesolowski"
    /\ vcaller' = "solve"
    /\ vj' = 0
    /\ vhashed' = {}
    /\ UNCHANGED <<vprimes, vhashes, vb, vsolution, valleged, vtamper>>
    /\ UNCHANGED <<bvars, gvars>>

\* One pass of the loop of hashPrime that ends in j++: the candidate is not
\* a probable prime.
HashPrimeReject ==
    /\ vpc = "hashPrime"
    /\ vj < MaxCounter
    /\ \/ HashPrimeInput(vj, vseed) \in vhashed
       \/ /\ HashPrimeInput(vj, vseed) \notin vhashed
          /\ \E prefix \in HashPrefixes :
                ~isProbablePrime(HashPrimeCandidate(prefix), 2)
    /\ vhashed' = vhashed \cup {HashPrimeInput(vj, vseed)}
    /\ vj' = vj + 1
    /\ UNCHANGED <<vkind, vcaller, vpc, vt, vdisc, vseed, vprimes, vhashes,
                   vb, vsolution, valleged, vtamper, vverdict>>
    /\ UNCHANGED <<bvars, gvars>>

\* The pass of the loop of hashPrime that returns n.
HashPrimeAccept ==
    /\ vpc = "hashPrime"
    /\ HashPrimeInput(vj, vseed) \notin vhashed
    /\ \E prefix \in HashPrefixes :
          /\ isProbablePrime(HashPrimeCandidate(prefix), 2)
          /\ vb' = HashPrimeCandidate(prefix)
          /\ vprimes' = vprimes @@ (vseed :> prefix)
    /\ vpc' = IF vcaller = "solve" THEN "prove" ELSE "check"
    /\ vj' = 0
    /\ vhashed' = {}
    /\ UNCHANGED <<vkind, vcaller, vt, vdisc, vseed, vhashes, vsolution,
                   valleged, vtamper, vverdict>>
    /\ UNCHANGED <<bvars, gvars>>

\* WesolowskiVDF.solve from the return of hashPrime on.
WesolowskiSolveEnd ==
    /\ vpc = "prove"
    /\ \E out \in {WesolowskiProve(vt, vdisc, vb, IntSizeBits)} :
          IF out.err # "none"
          THEN /\ vpc' = "done"
               /\ vverdict' = out.err
               /\ UNCHANGED <<vsolution, valleged>>
          ELSE /\ vpc' = "toVerify"
               /\ vsolution' = out.bytes
               /\ valleged' = out.bytes
               /\ vverdict' = "none"
    /\ UNCHANGED <<vkind, vcaller, vt, vdisc, vj, vseed, vhashed, vprimes,
                   vhashes, vb, vtamper>>
    /\ UNCHANGED <<bvars, gvars>>

\* PietrzakVDF.solve.
PietrzakSolveCall ==
    /\ vpc = "idle"
    /\ \E t \in PietrzakDifficulties, D \in Discriminants :
          /\ vt' = t
          /\ vdisc' = D
          /\ IF ~PietrzakCheckDifficulty(t)
             THEN /\ vpc' = "done"
                  /\ vverdict' = "InvalidIterations"
                  /\ UNCHANGED <<vhashes, vsolution, valleged>>
             ELSE /\ PietrzakRounds(t) <= MaxRounds
                  /\ \E hashes \in [1..PietrzakRounds(t) -> HashPrefixes] :
                        \E solved \in {PietrzakSolve(t, D, IntSizeBits,
                                                     vhashes, hashes)} :
                            /\ vhashes' = solved.memo
                            /\ IF solved.out.err # "none"
                               THEN /\ vpc' = "done"
                                    /\ vverdict' = solved.out.err
                                    /\ UNCHANGED <<vsolution, valleged>>
                               ELSE /\ vpc' = "toVerify"
                                    /\ vverdict' = "none"
                                    /\ vsolution' = solved.out.bytes
                                    /\ valleged' = solved.out.bytes
    /\ vkind' = "pietrzak"
    /\ vcaller' = "solve"
    /\ UNCHANGED <<vj, vseed, vhashed, vprimes, vb, vtamper>>
    /\ UNCHANGED <<bvars, gvars>>

\* The adversary hands verify bytes that no solve returned.
Forge ==
    /\ vpc = "idle"
    /\ \E kind \in {"wesolowski", "pietrzak"} :
          /\ vkind' = kind
          /\ vt' \in IF kind = "wesolowski" THEN WesolowskiDifficulties
                     ELSE PietrzakDifficulties
    /\ vdisc' \in Discriminants
    /\ valleged' \in Forgeries
    /\ vtamper' = "forged"
    /\ vpc' = "toVerify"
    /\ UNCHANGED <<vcaller, vj, vseed, vhashed, vprimes, vhashes, vb,
                   vsolution, vverdict>>
    /\ UNCHANGED <<bvars, gvars>>

\* The adversary flips one bit of the solution.
FlipOneBit ==
    /\ vpc = "toVerify"
    /\ vtamper = "none"
    /\ \E i \in TamperBits :
          /\ i < 8 * Len(valleged)
          /\ valleged' = FlipBit(valleged, i)
    /\ vtamper' = "flip"
    /\ UNCHANGED <<vkind, vcaller, vpc, vt, vdisc, vj, vseed, vhashed,
                   vprimes, vhashes, vb, vsolution, vverdict>>
    /\ UNCHANGED <<bvars, gvars>>

\* The adversary drops the last byte of the solution.
Truncate ==
    /\ vpc = "toVerify"
    /\ vtamper = "none"
    /\ valleged' = SubSeq(valleged, 1, Len(valleged) - 1)
    /\ vtamper' = "truncate"
    /\ UNCHANGED <<vkind, vcaller, vpc, vt, vdisc, vj, vseed, vhashed,
                   vprimes, vhashes, vb, vsolution, vverdict>>
    /\ UNCHANGED <<bvars, gvars>>

\* WesolowskiVDF.verify up to the call of hashPrime in verifyProof.  A seed
\* that hashPrime was given before makes it hash what it hashed then, and
\* return the prime it returned then.
WesolowskiVerifyBegin ==
    /\ vpc = "toVerify"
    /\ vkind = "wesolowski"
    /\ vcaller' = "verify"
    /\ IF ~WesolowskiCheckDifficulty(vt)
       THEN /\ vpc' = "done"
            /\ vverdict' = "InvalidIterations"
            /\ UNCHANGED <<vseed, vb>>
       ELSE \E start \in {WesolowskiVerifyStart(valleged, vdisc,
                                                IntSizeBits)} :
                IF start.err # "none"
                THEN /\ vpc' = "done"
                     /\ vverdict' = start.err
                     /\ UNCHANGED <<vseed, vb>>
                ELSE /\ vseed' = start.seed
                     /\ vverdict' = "none"
                     /\ IF start.seed \in DOMAIN vprimes
                        THEN /\ vpc' = "check"
                             /\ vb' = HashPrimeCandidate(
                                          vprimes[start.seed])
                        ELSE /\ vpc' = "hashPrime"
                             /\ vb' = vb
    /\ vj' = 0
    /\ vhashed' = {}
    /\ UNCHANGED <<vkind, vt, vdisc, vprimes, vhashes, vsolution, valleged,
                   vtamper>>
    /\ UNCHANGED <<bvars, gvars>>

\* WesolowskiVDF.verify from the return of hashPrime on.
WesolowskiVerifyEnd ==
    /\ vpc = "check"
    /\ \E start \in {WesolowskiVerifyStart(valleged, vdisc, IntSizeBits)} :
          vverdict' = WesolowskiCheck(Generator(vdisc), start.y, start.proof,
                                      vt, vb)
    /\ vpc' = "done"
    /\ UNCHANGED <<vkind, vcaller, vt, vdisc, vj, vseed, vhashed, vprimes,
                   vhashes, vb, vsolution, valleged, vtamper>>
    /\ UNCHANGED <<bvars, gvars>>

\* The proof elements an alleged Pietrzak solution holds.
ProofElements(allegedSolution, intSizeBits) ==
    IF Len(allegedSolution) < 2 * PietrzakSize(intSizeBits) THEN 0
    ELSE (Len(allegedSolution) - 2 * PietrzakSize(intSizeBits))
             \div (2 * PietrzakSize(intSizeBits))

\* PietrzakVDF.verify.
PietrzakVerifyCall ==
    /\ vpc = "toVerify"
    /\ vkind = "pietrzak"
    /\ vcaller' = "verify"
    /\ vpc' = "done"
    /\ IF ~PietrzakCheckDifficulty(vt)
       THEN /\ vverdict' = "InvalidIterations"
            /\ vhashes' = vhashes
       ELSE /\ ProofElements(valleged, IntSizeBits) <= MaxRounds
            /\ \E hashes \in [1..ProofElements(valleged, IntSizeBits)
                                  -> HashPrefixes] :
                  \E verified \in {PietrzakVerify(vt, valleged, vdisc,
                                                  IntSizeBits, vhashes,
                                                  hashes)} :
                      /\ vverdict' = verified.verdict
                      /\ vhashes' = verified.memo
    /\ UNCHANGED <<vkind, vt, vdisc, vj, vseed, vhashed, vprimes, vb,
                   vsolution, valleged, vtamper>>
    /\ UNCHANGED <<bvars, gvars>>

NextVdf ==
    \/ WesolowskiSolveBegin
    \/ HashPrimeReject
    \/ HashPrimeAccept
    \/ WesolowskiSolveEnd
    \/ PietrzakSolveCall
    \/ Forge
    \/ FlipOneBit
    \/ Truncate
    \/ WesolowskiVerifyBegin
    \/ WesolowskiVerifyEnd
    \/ PietrzakVerifyCall

SpecVdf == InitVdf /\ [][NextVdf]_vars

(***************************************************************************)
(* Claims about the byte codec (checked under SpecBytes)                   *)
(***************************************************************************)
\* Byte k (0 = least significant) of the two's complement encoding of v.
TwosComplementByte(v, k) == ShiftRight8(v, k) % 256

\* C6: for every width W >= 1 and every v representable in W bytes of two's
\* complement, bigIntToBytes(v, W) returns without raising and
\* bytesToBigInt(bigIntToBytes(v, W)) = v.
C6_SignedRoundTrip ==
    (bop \in {"bigIntToBytes", "bytesToBigInt"} /\ MinBytes(bv) <= bw)
        => /\ bres.err = "none"
           /\ bop = "bytesToBigInt" => bdec = bv

\* C7: bigIntToBytes(v, W) raises whenever v does not fit in W bytes of two's
\* complement; whenever it returns, the result has exactly W bytes, holds the
\* two's complement encoding of v right-aligned, and every byte above the
\* minimal encoding is 0xFF for negative v and 0x00 for non-negative v.
C7_NoSilentTruncation ==
    bop = "bigIntToBytes" =>
        /\ MinBytes(bv) > bw => bres.err = "Error"
        /\ bres.err = "none" =>
              /\ Len(bres.bytes) = bw
              /\ \A i \in 1..bw :
                    IF i <= bw - MinBytes(bv)
                    THEN bres.bytes[i] = (IF bv < 0 THEN 255 ELSE 0)
                    ELSE bres.bytes[i] = TwosComplementByte(bv, bw - i)

\* C7 witness: a negative value written into a buffer wider than its minimal
\* encoding.
C7_Witness ==
    /\ bop = "bigIntToBytes"
    /\ bv < -1
    /\ bres.err = "none"
    /\ bw > MinBytes(bv)

\* C8: u64ToBytes(n) is the 8-byte big-endian unsigned encoding of n: byte i
\* (0-based) equals (n >> 8*(7 - i)) mod 256.
C8_U64BigEndian ==
    bop = "u64ToBytes" =>
        /\ Len(bres.bytes) = 8
        /\ \A i \in 1..8 : bres.bytes[i] = ShiftRight8(bv, 8 - i) % 256

(***************************************************************************)
(* Claims about the class group (checked under SpecGroup)                  *)
(***************************************************************************)
HasDiscriminant(f, D) ==
    /\ f.err = "none"
    /\ f.b * f.b - 4 * f.a * f.c = D
    /\ f.discriminant = D

\* C10: starting from forms (a, b, c) of a valid discriminant D built by
\* fromAbDiscriminant, after any sequence of multiply, square,
\* repeatedSquare, pow with a non-negative exponent, reduce and serialize
\* followed by fromBytes, every form satisfies b*b - 4ac = D exactly and
\* keeps the discriminant field D.
C10_DiscriminantInvariant ==
    gop # "idle" =>
        /\ gx.discriminant \in Discriminants
        /\ HasDiscriminant(gx, gx.discriminant)
        /\ HasDiscriminant(gy, gx.discriminant)

\* C10 witness: a form other than the identity and the generator came back
\* from serialize and fromBytes after a product was stored as the operand.
C10_Witness ==
    /\ gop = "fromBytes"
    /\ gx.a > 2
    /\ gx.b < 0
    /\ gy.a > 2
    /\ gy # gx

(***************************************************************************)
(* Claims about the two VDFs (checked under SpecVdf)                       *)
(***************************************************************************)
\* The difficulties that the documentation calls invalid.
InvalidDifficulty ==
    IF vkind = "pietrzak" THEN vt % 2 = 1 \/ vt < 66 ELSE vt <= 0

\* C1: for every difficulty t >= 1 and every valid discriminant,
\* WesolowskiVDF.verify of what solve returned returns without raising.  So
\* solve returns: while its hashPrime runs, the input of some counter still
\* to come has not been rejected (u64ToBytes(j) depends on j modulo 256
\* only, so the next MaxCounter counters show every input still to come);
\* and neither solve nor verify raises.
C1_WesolowskiCompleteness ==
    (vkind = "wesolowski" /\ vtamper = "none" /\ ~InvalidDifficulty) =>
        /\ vpc = "hashPrime" =>
              \E j \in vj..(vj + MaxCounter) :
                  HashPrimeInput(j, vseed) \notin vhashed
        /\ vpc = "done" => vverdict = "accepted"

\* C2: for every even difficulty t >= 66 and every valid discriminant,
\* PietrzakVDF.verify of what solve returned returns without raising.
C2_PietrzakCompleteness ==
    (vkind = "pietrzak" /\ vtamper = "none" /\ ~InvalidDifficulty
        /\ vpc = "done") => vverdict = "accepted"

\* C3: for both VDFs, verify does not accept a solution that solve returned
\* after one of its bits was flipped.  (That verify then raises InvalidProof
\* and nothing else is the subject of C4.)
C3_TamperRejection ==
    (vtamper = "flip" /\ vpc = "done") => vverdict # "accepted"

\* C4: for both VDFs and a valid difficulty, every call of verify that does
\* not accept raises InvalidProof and no other error.
C4_SingleOpaqueFailure ==
    (vcaller = "verify" /\ vpc = "done" /\ ~InvalidDifficulty) =>
        vverdict \in {"accepted", "InvalidProof"}

\* C5: solve and verify of both VDFs raise InvalidIterations exactly when
\* the difficulty is invalid (Pietrzak: odd or below 66; Wesolowski: at most
\* 0), and they do so first: nothing was squared, hashed or returned, and
\* what verify was handed made no difference.
C5_DifficultyGate ==
    vkind # "none" =>
        IF InvalidDifficulty
        THEN /\ vpc \in {"toVerify", "done"}
             /\ vpc = "done" => vverdict = "InvalidIterations"
             /\ vpc = "toVerify" => vtamper = "forged"
             /\ vseed = <<>>
             /\ vprimes = <<>>
             /\ vhashes = <<>>
             /\ vsolution = <<>>
        ELSE vverdict # "InvalidIterations"

\* C5 witness: PietrzakVDF.verify threw InvalidIterations for an odd
\* difficulty above 66 and an alleged solution of the right length.
C5_Witness ==
    /\ vkind = "pietrzak"
    /\ vcaller = "verify"
    /\ vpc = "done"
    /\ vt > 66
    /\ vt % 2 = 1
    /\ Len(valleged) = 2 * (2 * PietrzakSize(IntSizeBits))
    /\ vverdict = "InvalidIterations"

\* C9: the hash input of hashPrime differs for every two counters, so the
\* loop never tests again an input it has already rejected.
C9_HashPrimeFreshInputs ==
    vpc = "hashPrime" => HashPrimeInput(vj, vseed) \notin vhashed

(***************************************************************************)
(* Claims about reduce (checked under SpecReduce)                          *)
(***************************************************************************)
\* A reduced form: a > 0, |b| <= a <= c, and b >= 0 when a = c or a = |b|.
IsReduced(f) ==
    /\ f.err = "none"
    /\ f.a > 0
    /\ Abs(f.b) <= f.a
    /\ f.a <= f.c
    /\ (f.a = f.c \/ f.a = Abs(f.b)) => f.b >= 0

C12_FormRoundTrip ==
    gop \in {"serialize", "fromBytes"} =>
        /\ bres.err = "none"
        /\ Len(bres.bytes) = 2 * bw
        /\ gop = "fromBytes" => gy = gx

(***************************************************************************)
(* Claims about the group law (checked under SpecLaws)                     *)
(***************************************************************************)
\* C13: for every reduced form f of a valid discriminant, f.multiply of the
\* identity and the identity's multiply of f both equal f, and the square of
\* the identity is the identity.
C13_IdentityLaw ==
    gop \in {"multiplyByIdentity", "identityMultiply", "identitySquare"} =>
        gx = gy

\* C13 witness: the identity was multiplied by a form with a negative b that
\* is not the identity.
C13_Witness ==
    /\ gop = "identityMultiply"
    /\ gx.a > 10
    /\ gx.b < -1
    /\ gx = gy

\* The e-fold composition of f with itself, one multiply after another.
RECURSIVE ComposeTimes(_, _)
ComposeTimes(f, e) ==
    IF e = 0 THEN identity(f)
    ELSE IF e = 1 THEN f
    ELSE multiply(ComposeTimes(f, e - 1), f)

\* C14: for every reduced form f and every e >= 0, after f.pow(e) the
\* receiver equals the e-fold composition of the original f with itself:
\* the identity for e = 0, f for e = 1, and the identity for every e when f
\* is the identity.
C14_Exponentiation ==
    gop = "pow" =>
        /\ gx = ComposeTimes(gy, bv)
        /\ bv = 0 => gx = identity(gy)
        /\ bv = 1 => gx = gy
        /\ gy = identity(gy) => gx = gy

\* C14 witness: pow with an exponent whose binary digits hold a zero after
\* the leading one, on a form that is not the identity, gave a form that
\* is neither the receiver nor the identity.
C14_Witness ==
    /\ gop = "pow"
    /\ bv \in {5, 6, 9}
    /\ gy.a > 1
    /\ gx # gy
    /\ gx # identity(gy)
    /\ gx.err = "none"

(***************************************************************************)
(* Claims about the length of a proof (checked under SpecVdf)              *)
(***************************************************************************)
\* The bytes of one serialized form: E = 2 * ((intSizeBits + 16) >> 4).
ElementLength == 2 * ((IntSizeBits + 16) \div 16)

\* C15: what WesolowskiVDF.solve returns has exactly 4 * size = 2E bytes,
\* y = x^(2^t) in the first E of them; and for a valid difficulty verify
\* raises InvalidProof for every alleged proof of another length, before
\* it decodes a form or hashes anything.
C15_WesolowskiProofLength ==
    vkind = "wesolowski" =>
        /\ vsolution # <<>> =>
              /\ Len(vsolution) = 2 * ElementLength
              /\ fromBytes(SubSeq(vsolution, 1, ElementLength), vdisc)
                     = repeatedSquare(Generator(vdisc), vt)
        /\ (vcaller = "verify" /\ ~InvalidDifficulty
               /\ Len(valleged) # 2 * ElementLength) =>
              /\ vpc = "done"
              /\ vverdict = "InvalidProof"
              /\ vtamper = "forged" => vseed = <<>>

\* C15 witness: verify raised InvalidProof for four zero bytes, which do
\* not decode to a form, at a valid difficulty.
C15_Witness ==
    /\ vkind = "wesolowski"
    /\ vcaller = "verify"
    /\ vt > 0
    /\ valleged = <<0, 0, 0, 0>>
    /\ vverdict = "InvalidProof"

C17_DiscriminantPostcondition ==
    bop = "done" =>
        /\ bdec < 0
        /\ bdec % 8 = 1
        /\ bitLength(-bdec) \in {bw - 1, bw}
        /\ isProbablePrime(-bdec, 10)

RECURSIVE IntegerPower(_, _)
IntegerPower(base, exponent) ==
    IF exponent = 0 THEN 1 ELSE base * IntegerPower(base, exponent - 1)

\* C19: modPow returns the one value of 0..modulus-1 that is congruent to
\* base^exponent modulo the modulus, for a base of either sign.
C19_ModPowRange ==
    bop = "modPow" =>
        /\ bres.bytes[1] \in 0..(bdec - 1)
        /\ (bres.bytes[1] - IntegerPower(bv, bw)) % bdec = 0

\* The greatest common divisor of two magnitudes; 0 for 0 and 0.
GreatestCommonDivisor(m, n) ==
    IF m = 0 /\ n = 0 THEN 0
    ELSE CHOOSE d \in 1..(m + n) :
             /\ m % d = 0
             /\ n % d = 0
             /\ \A e \in 1..(m + n) : (m % e = 0 /\ n % e = 0) => e <= d

\* C20: extendedGcd and extendedGCD return <<g, x, y>> with g = a*x + b*y
\* and g the non-negative greatest common divisor of |a| and |b|, for
\* operands of either sign and for zero.
C20_ExtendedGcd ==
    bop \in {"extendedGcd", "extendedGCD"} =>
        /\ bres.bytes[1] = bv * bres.bytes[2] + bw * bres.bytes[3]
        /\ bres.bytes[1] >= 0
        /\ bres.bytes[1] = GreatestCommonDivisor(Abs(bv), Abs(bw))


\* C21: the Map iterateSquarings returns has the distinct powers of the list
\* as its keys, whatever their order and repetitions, and holds at each key i
\* the form x squared i times.
C21_IterateSquarings ==
    gop = "iterateSquarings" =>
        /\ DOMAIN gy = {bres.bytes[n] : n \in 1..Len(bres.bytes)}
        /\ \A i \in DOMAIN gy : gy[i] = repeatedSquare(gx, i)

\* A list out of order with a repeated power was iterated, and the form at
\* its largest power differs from x.
C21_Witness ==
    /\ gop = "iterateSquarings"
    /\ bres.bytes = <<3, 1, 3>>
    /\ gy[3] # gx
    /\ gy[3] # gy[1]


\* C23: evalOptimized returns x to the power of the quotient of 2^t by B, for
\* every t, k and l from 1 on and every prime B.
C23_EvalOptimized ==
    gop = "evalOptimized" => gy = pow(gx, (2 ^ bw) \div bv)


(***************************************************************************)
(* Claims about the rounds of the Pietrzak proof (checked under SpecVdf)   *)
(***************************************************************************)
\* C24: in a round of generateProof below i the mu assembled from the power
\* table equals x_round squared halfT times.  Round 0 is such a round for
\* every t with a proof element (i >= 1), its x_round is the generator, and
\* its mu is the first proof element of what solve returned: so that
\* element is the generator squared t / 2 times.
C24_CachedRoundAgrees ==
    (vkind = "pietrzak" /\ Len(vsolution) >= 2 * ElementLength) =>
        fromBytes(SubSeq(vsolution, ElementLength + 1, 2 * ElementLength),
                  vdisc)
            = repeatedSquare(Generator(vdisc), vt \div 2)


\* The forms that a solution of PietrzakVDF.solve holds: y, then the mu of
\* every round.
SolutionForms ==
    [n \in 1..(Len(vsolution) \div ElementLength) |->
        fromBytes(SubSeq(vsolution, (n - 1) * ElementLength + 1,
                         n * ElementLength), vdisc)]

\* SHA256's input for x_initial, y_initial and the mu of round k: the three
\* forms serialized at the default size, one after the other.
InitialHashInput(k) ==
    serialize(Generator(vdisc), DefaultSize(Generator(vdisc))).bytes
        \o serialize(SolutionForms[1], DefaultSize(SolutionForms[1])).bytes
        \o serialize(SolutionForms[k + 1],
                     DefaultSize(SolutionForms[k + 1])).bytes

\* C25: in every round k the prover and the verifier hash the serialized
\* x_initial = (2, 1, D), y_initial = x^(2^t) and mu_k, never the x and y of
\* the round: the inputs hashed by solve are these, and verify of what solve
\* returned hashes no other input, so it reads the same r_k from SHA256.
C25_FiatShamirAgreement ==
    (vkind = "pietrzak" /\ vsolution # <<>> /\ vtamper = "none") =>
        /\ SolutionForms[1] = repeatedSquare(Generator(vdisc), vt)
        /\ DOMAIN vhashes
               = {InitialHashInput(k) : k \in 1..(Len(SolutionForms) - 1)}

\* C25 witness: verify ran on a solution with two proof elements that differ,
\* so two inputs were hashed by each side.
C25_Witness ==
    /\ vkind = "pietrzak"
    /\ vtamper = "none"
    /\ vcaller = "verify"
    /\ vpc = "done"
    /\ Len(vsolution) = 3 * ElementLength
    /\ Cardinality(DOMAIN vhashes) = 2


\* C29: every exponent passed to pow during solve and verify of both VDFs
\* is non-negative: each r_k that generateRValue returned (the r of every
\* input hashed so far), the prime B that hashPrime returned, and the
\* residue 2^t mod B.
C29_ExponentPrecondition ==
    /\ \A key \in DOMAIN vhashes : RValue(vhashes[key]) >= 0
    /\ vpc \in {"prove", "check"} =>
          /\ vb >= 0
          /\ modPow(2, vt, vb) >= 0


(***************************************************************************)
(* The round loops of pietrzak.ts on their counters alone: bv is the       *)
(* difficulty t, bw is currT, bres holds the list ts of generateProof (one *)
(* halfT per mu appended to the proof) and bdec counts the proof elements  *)
(* that verifyProof has consumed.                                          *)
(***************************************************************************)
MaxPietrzakDifficulty == 700

\* The passes of the while loop of generateProof that the model follows.
MaxProofRounds == 12

\* The difficulties that PietrzakVDF.checkDifficulty lets through.
ValidPietrzakDifficulties ==
    {t \in 66..MaxPietrzakDifficulty : PietrzakCheckDifficulty(t)}

\* currT after halving without the rounding.
HalveRoundingDown(currT) == currT \div 2

\* currT at the end of one pass of the while loop of generateProof.
ProverNextT(currT) == HalveRoundingUpToEven(currT)

InitRounds ==
    /\ GroupIdle
    /\ VdfIdle
    /\ bop = "generateProof"
    /\ bv \in ValidPietrzakDifficulties
    /\ bw = bv
    /\ bres = Returned(<<>>)
    /\ bdec = 0

\* One pass of the while loop of generateProof.
GenerateProofRound ==
    /\ bop = "generateProof"
    /\ bw # calculateFinalT(bv, 8)
    /\ Len(bres.bytes) < MaxProofRounds
    /\ bres' = Returned(Append(bres.bytes, bw \div 2))
    /\ bw' = ProverNextT(bw)
    /\ UNCHANGED <<bop, bv, bdec>>
    /\ UNCHANGED <<gvars, vvars>>

\* The while loop of generateProof ends, solve returns and verifyProof
\* starts from t.
GenerateProofReturn ==
    /\ bop = "generateProof"
    /\ bw = calculateFinalT(bv, 8)
    /\ bop' = "verifyProof"
    /\ bw' = bv
    /\ UNCHANGED <<bv, bres, bdec>>
    /\ UNCHANGED <<gvars, vvars>>

\* One pass of `for (const mu of proof)` of verifyProof.
VerifyProofRound ==
    /\ bop = "verifyProof"
    /\ bdec < Len(bres.bytes)
    /\ bdec' = bdec + 1
    /\ bw' = HalveRoundingUpToEven(bw)
    /\ UNCHANGED <<bop, bv, bres>>
    /\ UNCHANGED <<gvars, vvars>>

\* The loop of verifyProof ends.
VerifyProofReturn ==
    /\ bop = "verifyProof"
    /\ bdec = Len(bres.bytes)
    /\ bop' = "done"
    /\ UNCHANGED <<bv, bw, bres, bdec>>
    /\ UNCHANGED <<gvars, vvars>>

NextRounds ==
    \/ GenerateProofRound
    \/ GenerateProofReturn
    \/ VerifyProofRound
    \/ VerifyProofReturn

SpecRounds == InitRounds /\ [][NextRounds]_vars

\* Each loop runs on its own thread of control and is never suspended.
FairSpecRounds == SpecRounds /\ WF_vars(NextRounds)

\* The position of final_t in the list of calculateFinalT.
FinalIndex(t) == Len(FinalTs(t)) - 8 + 1

\* The list of calculateFinalT has at least 8 entries, and the current_t of
\* the prover and of the verifier is the entry of the list after as many
\* halvings as it has made, none of them beyond final_t.
RoundsWalkTheList ==
    /\ Len(FinalTs(bv)) >= 8
    /\ calculateFinalT(bv, 8) = FinalTs(bv)[FinalIndex(bv)]
    /\ bop = "generateProof" =>
          /\ Len(bres.bytes) + 1 <= FinalIndex(bv)
          /\ bw = FinalTs(bv)[Len(bres.bytes) + 1]
    /\ bop = "verifyProof" => bw = FinalTs(bv)[bdec + 1]
    /\ bop = "done" =>
          /\ bdec = Len(bres.bytes)
          /\ bw = calculateFinalT(bv, 8)

\* C30: for every even t >= 66 the list of calculateFinalT has at least 8
\* entries, so final_t is one of them; the current_t of the prover walks
\* the list and reaches final_t without skipping it, so its loop ends; and
\* the current_t of the verifier, once it has consumed every mu of the
\* honest proof, is final_t.
C30_RoundLoopTerminates == [](RoundsWalkTheList) /\ <>(bop = "done")

\* C30 witness: for t = 258 the prover made two rounds and the verifier
\* ended on final_t = 66.
C30_Witness ==
    /\ bop = "done"
    /\ bv = 258
    /\ bres.bytes = <<129, 65>>
    /\ bdec = 2
    /\ bw = 66


(***************************************************************************)
(* getBlock on its own: bv is b, bw is t, bres holds <<i, k>> and bdec     *)
(* takes what getBlock returns.  evalOptimized calls getBlock only past   *)
(* its guard `t < k * (i * l + j + 1)`, so with k * (i + 1) <= t.          *)
(***************************************************************************)
MaxBlockModulus == 37

MaxBlockT == 14

MaxBlockK == 4

InitBlock ==
    /\ GroupIdle
    /\ VdfIdle
    /\ bop = "new"
    /\ bdec = 0
    /\ bv \in 2..MaxBlockModulus
    /\ bw \in 0..MaxBlockT
    /\ \E k \in 1..MaxBlockK, i \in 0..MaxBlockT :
          /\ k * (i + 1) <= bw
          /\ bres = Returned(<<i, k>>)

GetBlockCall ==
    /\ bop = "new"
    /\ bop' = "getBlock"
    /\ bdec' = getBlock(bres.bytes[1], bres.bytes[2], bw, bv)
    /\ UNCHANGED <<bv, bw, bres>>
    /\ UNCHANGED <<gvars, vvars>>

NextBlock == GetBlockCall

SpecBlock == InitBlock /\ [][NextBlock]_vars

\* C27: for every b >= 2, k >= 1 and i with k * (i + 1) <= t, getBlock
\* returns the digit of floor(2^t / b) in base 2^k at position i, that is
\* floor(2^t / (b * 2^(k * i))) mod 2^k, a key of the 2^k buckets ys of
\* evalOptimized.
C27_GetBlockDigit ==
    bop = "getBlock" =>
        /\ bdec = ((2 ^ bw) \div (bv * 2 ^ (bres.bytes[2] * bres.bytes[1])))
                      % (2 ^ bres.bytes[2])
        /\ bdec = (((2 ^ bw) \div bv) \div (2 ^ (bres.bytes[2]
                                                     * bres.bytes[1])))
                      % (2 ^ bres.bytes[2])
        /\ bdec \in 0..(2 ^ bres.bytes[2] - 1)

\* C27 witness: digit 1 of floor(2^14 / 37) = 442 in base 8 is 7.
C27_Witness ==
    /\ bop = "getBlock"
    /\ bv = 37
    /\ bw = 14
    /\ bres.bytes = <<1, 3>>
    /\ bdec = 7


(***************************************************************************)
(* Claims about the sieve (checked under SpecDiscriminant)                 *)
(***************************************************************************)
\* n + M * i is what the search is looking for.
Qualifies(candidate) ==
    TRem(candidate, 8) = 7 /\ isProbablePrime(candidate, 2)

\* C28: the sieve of a window that starts at n marks index i only when
\* n + M * i is divisible by one of the sieve primes; and createDiscriminant
\* returns -p for the smallest p = n + M * i, i >= 0, from the n the search
\* starts at, that is 7 modulo 8 and passes isProbablePrime(p, 2).
C28_SieveFirstHit ==
    /\ bop \in {"search", "done"} =>
          \A i \in 0..(SieveLength - 1) :
              Sieved(bv, i) =>
                  \E k \in 1..Len(SIEVE_INFO) :
                      TRem(bv + M * i, SIEVE_INFO[k][1]) = 0
    /\ bop = "done" =>
          \A i \in 0..((-bdec - StartOfSearch(bres.bytes, bw)) \div M - 1) :
              ~Qualifies(StartOfSearch(bres.bytes, bw) + M * i)


(***************************************************************************)
(* fromAbDiscriminant on the a > 0 and the b of a caller, which fromBytes   *)
(* takes from the bytes it is given: bv is a, bw is b, bdec the            *)
(* discriminant.                                                           *)
(***************************************************************************)
\* reduce returns or raises for every a up to 4; for larger a it may run
\* without end (a = 5, b = 5, D = -7).
MaxFormA == 3

MaxFormB == 12

FormDiscriminants == {-7, -23, -71}

InitDivision ==
    /\ GroupIdle
    /\ VdfIdle
    /\ bop = "idle"
    /\ bres = Returned(<<>>)
    /\ bv \in 1..MaxFormA
    /\ bw \in (-MaxFormB)..MaxFormB
    /\ bdec \in FormDiscriminants

FromAbDiscriminantCall ==
    /\ gop = "idle"
    /\ gop' = "fromAbDiscriminant"
    /\ gx' = fromAbDiscriminant(bv, bw, bdec)
    /\ UNCHANGED <<gy, bvars, vvars>>

NextDivision == FromAbDiscriminantCall

SpecDivision == InitDivision /\ [][NextDivision]_vars

\* C26: no division truncates silently; so when fromAbDiscriminant(a, b, D)
\* returns a form, its division c = (b*b - D) / (4a) left remainder zero.
C26_ExactDivision ==
    (gop = "fromAbDiscriminant" /\ gx.err = "none") =>
        TRem(bw * bw - bdec, 4 * bv) = 0


(***************************************************************************)
(* Forms as objects.  A heap is the sequence of the ClassGroup objects     *)
(* allocated so far and a reference is an index into it.  A method writes  *)
(* the fields it assigns and allocates what it makes with `new`; an object *)
(* that no variable refers to when the method returns is left out.         *)
(***************************************************************************)
\* new ClassGroup(a, b, c, discriminant): the heap with the object added,
\* and the reference to it.
NewObject(heap, form) ==
    [heap |-> Append(heap, form), ref |-> Len(heap) + 1]

\* An object handed to somebody who holds on to it: the reference, and the
\* form it had then.
Stored(heap, ref) == [ref |-> ref, form |-> heap[ref]]

\* this.clone(): a new object with the fields of this.
cloneAt(heap, this) == NewObject(heap, heap[this])

\* this.identity(): fromAbDiscriminant makes a new object and reduces it.
identityAt(heap, this) == NewObject(heap, identity(heap[this]))

\* this.multiply(other): reads the fields of both and reduces the new
\* object it returns.
multiplyAt(heap, this, other) ==
    NewObject(heap, multiply(heap[this], heap[other]))

\* this.square(): result = this.multiply(this), then a, b, c of this are
\* assigned from it.
squareAt(heap, this) ==
    Bind(multiplyAt(heap, this, this),
         LAMBDA result : [heap EXCEPT ![this] = result.heap[result.ref]])

\* this.repeatedSquare(n): this.square(), n times.
repeatedSquareAt(heap, this, n) ==
    [heap EXCEPT ![this] = repeatedSquare(@, n)]

\* this.pow(exponent): works on result = this.clone() and on the results of
\* multiply, then assigns a, b, c of this.
powAt(heap, this, exponent) ==
    [heap EXCEPT ![this] = pow(@, exponent)]

\* this.reduce(): normalize and the loop assign a, b, c of this.
reduceAt(heap, this) ==
    [heap EXCEPT ![this] = reduce(@)]

\* The loop of iterateSquarings on objects: the heap and the Map, which
\* holds a clone of current for each power.
RECURSIVE IterateLoopAt(_, _, _, _, _, _)
IterateLoopAt(heap, sorted, i, current, previousPower, powersCalculated) ==
    IF i > Len(sorted) THEN [heap |-> heap, powers |-> powersCalculated]
    ELSE Bind(cloneAt(repeatedSquareAt(heap, current,
                                       sorted[i] - previousPower), current),
              LAMBDA copy :
                  IterateLoopAt(copy.heap, sorted, i + 1, current, sorted[i],
                                (sorted[i] :> Stored(copy.heap, copy.ref))
                                    @@ powersCalculated))

\* iterateSquarings(x, powersToCalculate) on objects.
iterateSquaringsAt(heap, x, powersToCalculate) ==
    Bind(cloneAt(heap, x),
         LAMBDA current :
             IterateLoopAt(current.heap, SortedPowers(powersToCalculate), 1,
                           current.ref, 0, <<>>))

\* `mus.push(mu)`: the proof holds mu itself.
PushedWithoutClone(heap, mu) == [heap |-> heap, ref |-> mu]

\* `mus.push(mu.clone())` of generateProof.
PushedMu(heap, mu) == cloneAt(heap, mu)

\* The loop over numerator of generateProof on objects: the heap and mu at
\* its end.
RECURSIVE CachedMuLoopAt(_, _, _, _, _, _, _, _)
CachedMuLoopAt(heap, numerator, denominator, halfT, rs, ts, powers, mu) ==
    IF numerator >= denominator THEN [heap |-> heap, ref |-> mu]
    ELSE Bind(<<RProdLoop(62 - Clz32(denominator) - 1,
                          62 - Clz32(denominator), numerator, rs, 1),
                TSumLoop(0, 62 - Clz32(denominator), numerator, ts, halfT)>>,
              LAMBDA found :
                  IF found[2] # NaN /\ found[2] \in DOMAIN powers
                  THEN Bind(cloneAt(heap, powers[found[2]].ref),
                            LAMBDA powerClone :
                                Bind(multiplyAt(powAt(powerClone.heap,
                                                      powerClone.ref,
                                                      found[1]),
                                                mu, powerClone.ref),
                                     LAMBDA next :
                                         CachedMuLoopAt(next.heap,
                                                        numerator + 2,
                                                        denominator, halfT,
                                                        rs, ts, powers,
                                                        next.ref)))
                  ELSE CachedMuLoopAt(heap, numerator + 2, denominator,
                                      halfT, rs, ts, powers, mu))

\* mu of one pass of the while loop of generateProof, on objects.
RoundMuAt(st, halfT, ts, i, powers, identityRef) ==
    IF st.roundIndex < i
    THEN Bind(cloneAt(st.heap, identityRef),
              LAMBDA mu :
                  CachedMuLoopAt(mu.heap, 1, 2 ^ (st.roundIndex + 1), halfT,
                                 st.rs, ts, powers, mu.ref))
    ELSE Bind(cloneAt(st.heap, st.xLast),
              LAMBDA mu :
                  [heap |-> repeatedSquareAt(mu.heap, mu.ref, halfT),
                   ref |-> mu.ref])

\* One pass of the while loop of generateProof on objects; lastR is what
\* generateRValue returns.
GenerateRoundAt(st, lastR, i, powers, identityRef) ==
    Bind(<<st.currT \div 2, Append(st.ts, st.currT \div 2)>>,
    LAMBDA half :
    Bind(RoundMuAt(st, half[1], half[2], i, powers, identityRef),
    LAMBDA mu :
    Bind(PushedMu(mu.heap, mu.ref),
    LAMBDA pushed :
    Bind(<<Stored(pushed.heap, pushed.ref),
           cloneAt(pushed.heap, st.xLast)>>,
    LAMBDA lastX :
    Bind(cloneAt(powAt(lastX[2].heap, lastX[2].ref, lastR), mu.ref),
    LAMBDA muCopy :
    Bind(multiplyAt(muCopy.heap, lastX[2].ref, muCopy.ref),
    LAMBDA newX :
    Bind(multiplyAt(powAt(newX.heap, mu.ref, lastR), mu.ref, st.yLast),
    LAMBDA newY :
        [heap |-> IF half[1] % 2 # 0 THEN squareAt(newY.heap, newY.ref)
                  ELSE newY.heap,
         xLast |-> newX.ref,
         yLast |-> newY.ref,
         mus |-> Append(st.mus, lastX[1]),
         rs |-> Append(st.rs, lastR),
         ts |-> half[2],
         currT |-> HalveRoundingUpToEven(st.currT),
         roundIndex |-> st.roundIndex + 1])))))))

RECURSIVE GenerateLoopAt(_, _, _, _, _, _)
GenerateLoopAt(st, rValues, finalT, i, powers, identityRef) ==
    IF st.currT = finalT THEN st
    ELSE Bind(GenerateRoundAt(st, rValues[st.roundIndex + 1], i, powers,
                              identityRef),
              LAMBDA next :
                  GenerateLoopAt(next, rValues, finalT, i, powers,
                                 identityRef))

\* generateProof of pietrzak.ts on objects: the record of its loop at the
\* end, with xP[0] and yP[0] as they were made.
generateProofAt(heap, x, iterations, delta, powers, rValues) ==
    Bind(identityAt(heap, x),
    LAMBDA identityForm :
    Bind(cloneAt(identityForm.heap, x),
    LAMBDA xFirst :
    Bind(cloneAt(xFirst.heap, powers[iterations].ref),
    LAMBDA yFirst :
    Bind(GenerateLoopAt([heap |-> yFirst.heap,
                         xLast |-> xFirst.ref, yLast |-> yFirst.ref,
                         mus |-> <<>>, rs |-> <<>>, ts |-> <<>>,
                         currT |-> iterations, roundIndex |-> 0],
                        rValues, calculateFinalT(iterations, delta),
                        approximateI(iterations), powers, identityForm.ref),
    LAMBDA st :
        [heap |-> st.heap,
         mus |-> st.mus,
         first |-> {Stored(yFirst.heap, xFirst.ref),
                    Stored(yFirst.heap, yFirst.ref)}]))))

\* One pass of `for (const mu of proof)` of verifyProof on objects.
VerifyRoundAt(st, mu, r) ==
    Bind(cloneAt(st.heap, mu),
    LAMBDA muCopy :
    Bind(multiplyAt(powAt(muCopy.heap, st.x, r), st.x, mu),
    LAMBDA x :
    Bind(cloneAt(x.heap, mu),
    LAMBDA muCopy2 :
    Bind(multiplyAt(powAt(muCopy2.heap, muCopy2.ref, r), st.y, muCopy2.ref),
    LAMBDA y :
        [heap |-> IF (st.currT \div 2) % 2 # 0
                  THEN squareAt(y.heap, y.ref)
                  ELSE y.heap,
         x |-> x.ref,
         y |-> y.ref,
         currT |-> HalveRoundingUpToEven(st.currT)]))))

RECURSIVE VerifyLoopAt(_, _, _, _)
VerifyLoopAt(st, proof, index, rValues) ==
    IF index > Len(proof) THEN st
    ELSE Bind(VerifyRoundAt(st, proof[index], rValues[index]),
              LAMBDA next : VerifyLoopAt(next, proof, index + 1, rValues))

\* verifyProof of pietrzak.ts on objects: the heap when it returns or
\* throws InvalidProof.
verifyProofAt(heap, xInitial, yInitial, proof, t, rValues) ==
    Bind(cloneAt(heap, xInitial),
    LAMBDA x :
    Bind(cloneAt(x.heap, yInitial),
    LAMBDA y :
    Bind(VerifyLoopAt([heap |-> y.heap, x |-> x.ref, y |-> y.ref,
                       currT |-> t], proof, 1, rValues),
    LAMBDA st :
    Bind(cloneAt(st.heap, st.x),
    LAMBDA xFinal :
        [xFinal.heap EXCEPT ![xFinal.ref] =
             PowBits(@, PowerOfTwoBits(st.currT))]))))

\* `ys.set(BigInt(block), identity.clone())` for block = 0 .. kExp - 1 of
\* evalOptimized: the heap and ys.
RECURSIVE BucketsAt(_, _, _, _, _)
BucketsAt(heap, identityRef, block, kExp, ys) ==
    IF block >= kExp THEN [heap |-> heap, ys |-> ys]
    ELSE Bind(cloneAt(heap, identityRef),
              LAMBDA copy :
                  BucketsAt(copy.heap, identityRef, block + 1, kExp,
                            (block :> copy.ref) @@ ys))

\* The loop `for (i = 0; i < endOfLoop; i++)` of evalOptimized on objects.
RECURSIVE BlockLoopAt(_, _, _, _, _, _, _, _, _)
BlockLoopAt(heap, i, ys, j, b, t, k, l, powers) ==
    IF i >= EndOfLoop(t, k, l) THEN [heap |-> heap, ys |-> ys]
    ELSE IF t < k * (i * l + j + 1)
    THEN BlockLoopAt(heap, i + 1, ys, j, b, t, k, l, powers)
    ELSE Bind(<<getBlock(i * l, k, t, b),
                cloneAt(heap, powers[i * k * l].ref)>>,
              LAMBDA found :
                  Bind(multiplyAt(found[2].heap, ys[found[1]], found[2].ref),
                       LAMBDA product :
                           BlockLoopAt(product.heap, i + 1,
                                       [ys EXCEPT ![found[1]] = product.ref],
                                       j, b, t, k, l, powers)))

\* `z = z.multiply(ys.get(key))` for key = first, first + step, ... taken
\* count times, on objects.
RECURSIVE MultiplyKeysAt(_, _, _, _, _, _)
MultiplyKeysAt(heap, ys, z, first, step, count) ==
    IF count <= 0 THEN [heap |-> heap, ref |-> z]
    ELSE Bind(multiplyAt(heap, z, ys[first]),
              LAMBDA next :
                  MultiplyKeysAt(next.heap, ys, next.ref, first + step, step,
                                 count - 1))

\* One pass of either loop over the halves of a block: z is a clone of
\* identity multiplied by the buckets, z.pow(exponent), x = x.multiply(z).
HalfStepAt(heap, x, ys, identityRef, first, step, count, exponent) ==
    Bind(cloneAt(heap, identityRef),
         LAMBDA start :
             Bind(MultiplyKeysAt(start.heap, ys, start.ref, first, step,
                                 count),
                  LAMBDA z :
                      multiplyAt(powAt(z.heap, z.ref, exponent), x, z.ref)))

\* The loop `for (b1 = 0; b1 < k1Exp; b1++)` of evalOptimized on objects.
RECURSIVE HighHalfLoopAt(_, _, _, _, _, _, _)
HighHalfLoopAt(heap, b1, x, ys, k0Exp, k1Exp, identityRef) ==
    IF b1 >= k1Exp THEN [heap |-> heap, ref |-> x]
    ELSE Bind(HalfStepAt(heap, x, ys, identityRef, b1 * k0Exp, 1, k0Exp,
                         b1 * k0Exp),
              LAMBDA next :
                  HighHalfLoopAt(next.heap, b1 + 1, next.ref, ys, k0Exp,
                                 k1Exp, identityRef))

\* The loop `for (b0 = 0; b0 < k0Exp; b0++)` of evalOptimized on objects.
RECURSIVE LowHalfLoopAt(_, _, _, _, _, _, _)
LowHalfLoopAt(heap, b0, x, ys, k0Exp, k1Exp, identityRef) ==
    IF b0 >= k0Exp THEN [heap |-> heap, ref |-> x]
    ELSE Bind(HalfStepAt(heap, x, ys, identityRef, b0, k0Exp, k1Exp, b0),
              LAMBDA next :
                  LowHalfLoopAt(next.heap, b0 + 1, next.ref, ys, k0Exp,
                                k1Exp, identityRef))

\* The loop `for (j = l - 1; j >= 0; j--)` of evalOptimized on objects.
RECURSIVE EvalLoopAt(_, _, _, _, _, _, _, _, _)
EvalLoopAt(heap, j, x, identityRef, b, t, k, l, powers) ==
    IF j < 0 THEN [heap |-> heap, ref |-> x]
    ELSE
    Bind(<<ShiftLeftOne(ShiftRightOne(k)),
           ShiftLeftOne(k - ShiftRightOne(k)),
           BucketsAt(powAt(heap, x, ShiftLeftOne(k)), identityRef, 0,
                     ShiftLeftOne(k), <<>>)>>,
    LAMBDA loop :
    Bind(BlockLoopAt(loop[3].heap, 0, loop[3].ys, j, b, t, k, l, powers),
    LAMBDA blocks :
    Bind(HighHalfLoopAt(blocks.heap, 0, x, blocks.ys, loop[1], loop[2],
                        identityRef),
    LAMBDA high :
    Bind(LowHalfLoopAt(high.heap, 0, high.ref, blocks.ys, loop[1], loop[2],
                       identityRef),
    LAMBDA low :
        EvalLoopAt(low.heap, j - 1, low.ref, identityRef, b, t, k, l,
                   powers)))))

\* evalOptimized on objects, for k >= 1.
evalOptimizedAt(heap, h, b, t, k, l, powers) ==
    Bind(identityAt(heap, h),
         LAMBDA x :
             Bind(identityAt(x.heap, h),
                  LAMBDA identityForm :
                      EvalLoopAt(identityForm.heap, l - 1, x.ref,
                                 identityForm.ref, b, t, k, l, powers)))

\* verifyProof of wesolowski.ts on objects: the heap when it returns or
\* throws InvalidProof.
WesolowskiVerifyProofAt(heap, x, y, proof, t, b) ==
    Bind(cloneAt(heap, proof),
    LAMBDA proofCopy :
    Bind(cloneAt(powAt(proofCopy.heap, proofCopy.ref, b), x),
    LAMBDA xCopy :
    Bind(multiplyAt(powAt(xCopy.heap, xCopy.ref, modPow(2, t, b)),
                    proofCopy.ref, xCopy.ref),
    LAMBDA result : result.heap)))

(***************************************************************************)
(* The methods and the two VDFs on a heap that already holds two forms of  *)
(* the caller: gx is the heap, gy the objects that somebody holds with the *)
(* form each had when it was handed over, bv the receiver or the           *)
(* difficulty, bw the operand and bres the references returned.            *)
(***************************************************************************)
FrameDiscriminants == {-23, -71}

\* Forms of the caller: the generator, the identity and a form that is
\* not reduced.
FrameForms(D) ==
    {Generator(D), identity(Generator(D)),
     ClassGroup(2, 5, (25 - D) \div 8, D)}

\* One round, and three rounds of which the last is past the power table.
FrameDifficulties == {130, 514}

\* What generateRValue returns is one of these.
FrameRValues == {0, 3}

FrameWesolowskiDifficulties == {5, 20}

\* What hashPrime returns is one of these.
FramePrimes == {3, 11}

\* Every object of the heap, with the form it has.
Held(heap) == {Stored(heap, ref) : ref \in 1..Len(heap)}

InitFrame ==
    /\ VdfIdle
    /\ BytesIdle
    /\ gop = "new"
    /\ \E D \in FrameDiscriminants :
          \E f \in FrameForms(D), g \in FrameForms(D) : gx = <<f, g>>
    /\ gy = {}

MultiplyAtCall ==
    /\ gop = "new"
    /\ gop' = "multiply"
    /\ \E this \in 1..Len(gx), other \in 1..Len(gx) :
          \E result \in {multiplyAt(gx, this, other)} :
              /\ gx' = result.heap
              /\ bv' = this
              /\ bw' = other
              /\ bres' = Returned(<<result.ref>>)
    /\ gy' = Held(gx)
    /\ UNCHANGED <<bop, bdec, vvars>>

IdentityAtCall ==
    /\ gop = "new"
    /\ gop' = "identity"
    /\ \E this \in 1..Len(gx) :
          \E result \in {identityAt(gx, this)} :
              /\ gx' = result.heap
              /\ bv' = this
              /\ bres' = Returned(<<result.ref>>)
    /\ gy' = Held(gx)
    /\ UNCHANGED <<bop, bw, bdec, vvars>>

CloneAtCall ==
    /\ gop = "new"
    /\ gop' = "clone"
    /\ \E this \in 1..Len(gx) :
          \E result \in {cloneAt(gx, this)} :
              /\ gx' = result.heap
              /\ bv' = this
              /\ bres' = Returned(<<result.ref>>)
    /\ gy' = Held(gx)
    /\ UNCHANGED <<bop, bw, bdec, vvars>>

SquareAtCall ==
    /\ gop = "new"
    /\ gop' = "square"
    /\ \E this \in 1..Len(gx) :
          /\ gx' = squareAt(gx, this)
          /\ bv' = this
          /\ gy' = Held(gx) \ {Stored(gx, this)}
    /\ UNCHANGED <<bop, bw, bres, bdec, vvars>>

RepeatedSquareAtCall ==
    /\ gop = "new"
    /\ gop' = "repeatedSquare"
    /\ \E this \in 1..Len(gx), n \in 0..MaxRepeat :
          /\ gx' = repeatedSquareAt(gx, this, n)
          /\ bv' = this
          /\ gy' = Held(gx) \ {Stored(gx, this)}
    /\ UNCHANGED <<bop, bw, bres, bdec, vvars>>

PowAtCall ==
    /\ gop = "new"
    /\ gop' = "pow"
    /\ \E this \in 1..Len(gx), exponent \in 0..MaxExponent :
          /\ gx' = powAt(gx, this, exponent)
          /\ bv' = this
          /\ gy' = Held(gx) \ {Stored(gx, this)}
    /\ UNCHANGED <<bop, bw, bres, bdec, vvars>>

ReduceAtCall ==
    /\ gop = "new"
    /\ gop' = "reduce"
    /\ \E this \in 1..Len(gx) :
          /\ gx' = reduceAt(gx, this)
          /\ bv' = this
          /\ gy' = Held(gx) \ {Stored(gx, this)}
    /\ UNCHANGED <<bop, bw, bres, bdec, vvars>>

\* PietrzakVDF.solve: x, the power table, generateProof; serialize only
\* reads.  The caller holds its forms and x, the Map holds the powers, mus
\* holds the proof, and xP[0] and yP[0] are what generateRValue is given.
PietrzakSolveAt ==
    /\ gop = "new"
    /\ gop' = "pietrzakSolve"
    /\ \E t \in FrameDifficulties :
          \E rValues \in [1..PietrzakRounds(t) -> FrameRValues] :
          \E x \in {NewObject(gx, Generator(gx[1].discriminant))} :
          \E table \in {iterateSquaringsAt(x.heap, x.ref,
                                           cacheIndicesForCount(t))} :
          \E made \in {generateProofAt(table.heap, x.ref, t, 8,
                                       table.powers, rValues)} :
              /\ gx' = made.heap
              /\ gy' = Held(x.heap)
                           \cup {table.powers[p] : p \in DOMAIN table.powers}
                           \cup {made.mus[n] : n \in DOMAIN made.mus}
                           \cup made.first
              /\ bv' = t
              /\ bres' = Returned([n \in DOMAIN made.mus |->
                                      made.mus[n].ref])
    /\ UNCHANGED <<bop, bw, bdec, vvars>>

\* PietrzakVDF.verify on a y and a proof that fromBytes made: x, y and the
\* proof are the caller's.
PietrzakVerifyAt ==
    /\ gop = "new"
    /\ gop' = "pietrzakVerify"
    /\ \E t \in FrameDifficulties, length \in 0..2 :
          \E rValues \in [1..length -> FrameRValues] :
          \E x \in {NewObject(gx, Generator(gx[1].discriminant))} :
          \E y \in {NewObject(x.heap, reduce(gx[2]))} :
          \E first \in {NewObject(y.heap, reduce(gx[1]))} :
          \E second \in {NewObject(first.heap, reduce(gx[2]))} :
          \E proof \in {SubSeq(<<first.ref, second.ref>>, 1, length)} :
              /\ gx' = verifyProofAt(second.heap, x.ref, y.ref, proof, t,
                                     rValues)
              /\ gy' = Held(second.heap)
              /\ bv' = t
              /\ bres' = Returned(proof)
    /\ UNCHANGED <<bop, bw, bdec, vvars>>

\* WesolowskiVDF.solve: x, the power table, evalOptimized.
WesolowskiSolveAt ==
    /\ gop = "new"
    /\ gop' = "wesolowskiSolve"
    /\ \E t \in FrameWesolowskiDifficulties, b \in FramePrimes :
          \E lk \in {approximateParameters(t)} :
          \E x \in {NewObject(gx, Generator(gx[1].discriminant))} :
          \E table \in {iterateSquaringsAt(
                            x.heap, x.ref,
                            WesolowskiPowerIndices(t, lk[2], lk[1]))} :
          \E proof \in {evalOptimizedAt(table.heap, x.ref, b, t, lk[2],
                                        lk[1], table.powers)} :
              /\ gx' = proof.heap
              /\ gy' = Held(x.heap)
                           \cup {table.powers[p] : p \in DOMAIN table.powers}
              /\ bv' = t
              /\ bres' = Returned(<<proof.ref>>)
    /\ UNCHANGED <<bop, bw, bdec, vvars>>

\* WesolowskiVDF.verify on a y and a proof that fromBytes made.
WesolowskiVerifyAt ==
    /\ gop = "new"
    /\ gop' = "wesolowskiVerify"
    /\ \E t \in FrameWesolowskiDifficulties, b \in FramePrimes :
          \E x \in {NewObject(gx, Generator(gx[1].discriminant))} :
          \E y \in {NewObject(x.heap, reduce(gx[2]))} :
          \E proof \in {NewObject(y.heap, reduce(gx[1]))} :
              /\ gx' = WesolowskiVerifyProofAt(proof.heap, x.ref, y.ref,
                                               proof.ref, t, b)
              /\ gy' = Held(proof.heap)
              /\ bv' = t
              /\ bres' = Returned(<<proof.ref>>)
    /\ UNCHANGED <<bop, bw, bdec, vvars>>

NextFrame ==
    \/ MultiplyAtCall
    \/ IdentityAtCall
    \/ CloneAtCall
    \/ SquareAtCall
    \/ RepeatedSquareAtCall
    \/ PowAtCall
    \/ ReduceAtCall
    \/ PietrzakSolveAt
    \/ PietrzakVerifyAt
    \/ WesolowskiSolveAt
    \/ WesolowskiVerifyAt

SpecFrame == InitFrame /\ [][NextFrame]_vars

\* C22: square, repeatedSquare, pow and reduce write only the fields of
\* their receiver; multiply, identity and clone return a new object and
\* write no other, also when the operand is the receiver; so during solve
\* and verify of both VDFs the caller's forms, x and y, every form in the
\* power table and every mu already in the proof keep the form they had
\* when they were handed over.
C22_Frame ==
    /\ \A held \in gy :
           /\ held.ref \in 1..Len(gx)
           /\ gx[held.ref] = held.form
    /\ gop \in {"multiply", "identity", "clone"} =>
           /\ bres.bytes[1] = Len(gx)
           /\ Cardinality(gy) = Len(gx) - 1
    /\ gop \in {"square", "repeatedSquare", "pow", "reduce"} =>
           /\ Cardinality(gy) = Len(gx) - 1
           /\ gx[bv].discriminant = gx[1].discriminant

\* C22 witness: PietrzakVDF.solve ran three rounds for t = 514, two of them
\* on the power table, mu.pow(3) changed the mu of round 0 after its clone
\* went into the proof, and the proof holds three objects.
C22_Witness ==
    /\ gop = "pietrzakSolve"
    /\ bv = 514
    /\ Len(bres.bytes) = 3
    /\ Cardinality({bres.bytes[n] : n \in 1..3}) = 3
    /\ pow(gx[bres.bytes[1]], 3) # gx[bres.bytes[1]]
    /\ gx[bres.bytes[1] - 1] = pow(gx[bres.bytes[1]], 3)

=============================================================================
